---- MODULE Spec2Model ----
(***************************************************************************)
(* Idempotent resource reconciliation of the Fly.io activities:            *)
(*   - ips allocate   (activity/fly-http/impl/src/ips.rs)                  *)
(*   - machines create (activity/fly-http/impl/src/machine.rs)             *)
(*   - apps put       (activity/fly-http/impl/src/app.rs)                  *)
(* Every HTTP call is one atomic step of the remote provider; an           *)
(* invocation is the sequence of its calls in program order.               *)
(***************************************************************************)
EXTENDS Integers, Sequences, FiniteSets, TLC

\* ---------------------------------------------------------------- bounds
\* IP addresses the provider can mint are 1..MaxAddr.
MaxAddr == 3
\* Longest pre_existing Vec a caller passes.
MaxPre == 2
\* Invocations of ips allocate in one retry sequence.
MaxAttempts == 3
\* ips allocate invocations that overlap in time.
NIpProcs == 2
\* machines create invocations that overlap in time.
NMcProcs == 3
\* apps put invocations that overlap in time.
NApProcs == 2
\* Release calls one caller makes in a row for one address.
MaxReleases == 3
\* Operations of the docker component performed one after the other
MaxOps == 3
\* Delete calls of the Fly component made one after the other
MaxDeletes == 3

\* ------------------------------------------------------- HTTP vocabulary
NOT_FOUND == 404
CONFLICT == 409
UNPROCESSABLE_ENTITY == 422

\* Option<T>: None, Some(x)
None == <<>>
Some(x) == <<x>>

\* StatusCode::is_success
is_success(status) == status \in 200..299

\* Result<T, anyhow::Error>
Ok(val) == [ok |-> TRUE, val |-> val]
Err(err) == [ok |-> FALSE, err |-> err]

\* anyhow!("failed with status {status}: {body}")
StatusError(status, body) == [kind |-> "status", status |-> status, body |-> body]

\* ======================================================================
\* State
\* ======================================================================
\* ips allocate
VARIABLES
    ipRemote,       \* the provider's IP assignments of the app
    ipRemote0,      \* the provider's IP assignments before the first invocation
    pre_existing,   \* the Vec the caller passes to every invocation
    ipPc,           \* position of each invocation
    ipAllocated,    \* `allocated`
    ipPost,         \* `post_existing`
    ipTodo,         \* what the `for redundant in ...` loop has not visited yet
    ipReleases,     \* release calls issued by the invocation, per address
    ipResult,       \* what the invocation returned
    ipBefore,       \* the provider's IP assignments when the invocation began
    ipAttempt,      \* invocations begun so far in the retry sequence
    ipOverlap,      \* an allocation call was made while another invocation was
                    \* between its own allocation call and its return
    ipCalls         \* the calls the invocation made, in order, and how each ended

\* machines create
VARIABLES
    mcDb,           \* the provider's machines of the app: records [name, id]
    mcName,         \* `machine_name` of each invocation
    mcPc,           \* position of each invocation
    mcResponse,     \* the response to the invocation's POST
    mcResult,       \* what the invocation returned
    mcRequests,     \* HTTP requests the invocation issued
    mcRequested,    \* `machine_config` and `region` of each invocation
    mcStored        \* the provider's configuration of each machine: [id, config]

\* apps put
VARIABLES
    apDb,           \* the provider's apps: records [name, id, org]
    apOrg,          \* `org_slug` of each invocation
    apPc,           \* position of each invocation
    apCreate,       \* the response to the invocation's create POST
    apProbe,        \* the response to the invocation's probe GET
    apResult,       \* what the invocation returned
    apPosts,        \* create POSTs the invocation issued
    apGets,         \* probe GETs the invocation issued
    apWrites        \* changes the invocation's calls made to the provider's apps

\* ips release
VARIABLES
    rlIp,           \* `ip` of the release calls
    rlCalls         \* the release calls made so far: the answer and the result

\* one operation of the Fly component (impl Guest for Component)
VARIABLES
    opName,         \* the operation called
    opArgs,         \* its identifier arguments, by parameter name
    opToken,        \* the FLY_API_TOKEN environment variable: None when absent
    opPc,           \* position of the operation
    opNext,         \* index of the request the operation builds next
    opSent,         \* the requests sent to the network, in order
    opResult        \* what the operation returned

\* a function applied to one input
VARIABLES
    arg,            \* the input the function is applied to
    ret             \* None before the call, Some(value returned) after it

VARIABLES
    dkDaemon,       \* what the Docker daemon holds under the name
    dkBefore,       \* what it held before the last operation
    dkOp,           \* the last operation of the docker component: [op, force]
    dkResult,       \* the result the last operation returned
    dkCmds,         \* the docker commands the last operation ran: [args, res]
    dkPrev,         \* the operation before it and its result
    dkCount         \* operations performed

VARIABLES
    dlPresent,      \* the resources the provider holds, by the operation that deletes them
    dlCalls         \* the delete calls made: [op, response, result]

ipVars == <<ipRemote, ipRemote0, pre_existing, ipPc, ipAllocated, ipPost, ipTodo,
            ipReleases, ipResult, ipBefore, ipAttempt, ipOverlap, ipCalls>>
mcVars == <<mcDb, mcName, mcPc, mcResponse, mcResult, mcRequests, mcRequested, mcStored>>
apVars == <<apDb, apOrg, apPc, apCreate, apProbe, apResult, apPosts, apGets, apWrites>>
rlVars == <<rlIp, rlCalls>>
opVars == <<opName, opArgs, opToken, opPc, opNext, opSent, opResult>>
fnVars == <<arg, ret>>
dkVars == <<dkDaemon, dkBefore, dkOp, dkResult, dkCmds, dkPrev, dkCount>>
dlVars == <<dlPresent, dlCalls>>
vars == <<ipVars, mcVars, apVars, rlVars, opVars, fnVars, dkVars, dlVars>>

\* What an action of one protocol leaves alone.
notIp == <<mcVars, apVars, rlVars, opVars, fnVars, dkVars, dlVars>>
notMc == <<ipVars, apVars, rlVars, opVars, fnVars, dkVars, dlVars>>
notAp == <<ipVars, mcVars, rlVars, opVars, fnVars, dkVars, dlVars>>
notOp == <<ipVars, mcVars, apVars, rlVars, fnVars, dkVars, dlVars>>
notFn == <<ipVars, mcVars, apVars, rlVars, opVars, dkVars, dlVars>>
\* ips release changes the provider's IP assignments and nothing else of it.
notRl == <<ipRemote0, pre_existing, ipPc, ipAllocated, ipPost, ipTodo, ipReleases,
           ipResult, ipBefore, ipAttempt, ipOverlap, ipCalls, mcVars, apVars, opVars,
           fnVars, dkVars, dlVars>>
notDk == <<ipVars, mcVars, apVars, rlVars, opVars, fnVars, dlVars>>
notDl == <<ipVars, mcVars, apVars, rlVars, opVars, fnVars, dkVars>>

\* ======================================================================
\* ips allocate
\* ======================================================================
Addr == 1..MaxAddr
IpProcs == 1..NIpProcs

\* Vec<IpDetail> -> the ips the HashSet collects
ToSet(seq) == {seq[i] : i \in DOMAIN seq}

PreExistingInputs == UNION {[1..n -> Addr] : n \in 0..MaxPre}

\* HashSet::symmetric_difference taken for a union: every listed and every
\* expected address is handed to release.
SymmetricDifferenceAsUnion(a, b) == a \cup b

\* HashSet::symmetric_difference taken for a difference: the listed addresses
\* that are not expected.
SymmetricDifferenceListedOnly(a, b) == a \ b

\* HashSet::symmetric_difference
symmetric_difference(a, b) == (a \ b) \cup (b \ a)

\* `expected` with the allocated address left out.
ExpectedWithoutAllocated(pre, allocated) == ToSet(pre)

\* expected = pre_existing ips + allocated
expected(pre, allocated) == ToSet(pre) \cup {allocated}

\* release_ip without the 404 branch.
ReleaseIpNotFoundIsError(status, body) ==
    IF is_success(status) THEN [ok |-> TRUE]
    ELSE [ok |-> FALSE, err |-> StatusError(status, body)]

\* release_ip's result for the status of the DELETE: 2xx and 404 are Ok(())
release_ip(status, body) ==
    IF is_success(status) THEN [ok |-> TRUE]
    ELSE IF status = NOT_FOUND THEN [ok |-> TRUE]
    ELSE [ok |-> FALSE, err |-> StatusError(status, body)]

\* The provider's answer to DELETE /apps/{app}/ip_assignments/{ip}
ProviderDelete(remote, ip) ==
    IF ip \in remote THEN [status |-> 200, remote |-> remote \ {ip}]
    ELSE [status |-> NOT_FOUND, remote |-> remote]

IpLocalInit(p) ==
    /\ ipAllocated' = [ipAllocated EXCEPT ![p] = None]
    /\ ipPost' = [ipPost EXCEPT ![p] = None]
    /\ ipTodo' = [ipTodo EXCEPT ![p] = {}]
    /\ ipReleases' = [ipReleases EXCEPT ![p] = [a \in Addr |-> 0]]
    /\ ipResult' = [ipResult EXCEPT ![p] = None]
    /\ ipCalls' = [ipCalls EXCEPT ![p] = <<>>]

\* The invocation made `call` and it returned Ok (ok) or Err.
IpCall(p, call, ok) ==
    ipCalls' = [ipCalls EXCEPT ![p] = Append(@, [call |-> call, ok |-> ok])]

IpFail(p, err) ==
    /\ ipPc' = [ipPc EXCEPT ![p] = "failed"]
    /\ ipResult' = [ipResult EXCEPT ![p] = Some(Err(err))]

\* allocate_ip answers success: the provider mints a new address.
IpAllocateOk(p) ==
    /\ ipPc[p] = "start"
    /\ \E c \in Addr \ ipRemote :
        /\ ipRemote' = ipRemote \cup {c}
        /\ ipAllocated' = [ipAllocated EXCEPT ![p] = Some(c)]
    /\ ipPc' = [ipPc EXCEPT ![p] = "allocated"]
    /\ ipOverlap' = (\/ ipOverlap
                     \/ \E q \in IpProcs \ {p} : ipPc[q] \in {"allocated", "releasing"})
    /\ IpCall(p, "allocate", TRUE)
    /\ UNCHANGED <<ipRemote0, pre_existing, ipPost, ipTodo, ipReleases, ipResult,
                   ipBefore, ipAttempt, notIp>>

\* allocate_ip answers a non-success status: `?` returns the error.
IpAllocateErr(p) ==
    /\ ipPc[p] = "start"
    /\ IpFail(p, StatusError(500, "allocate"))
    /\ IpCall(p, "allocate", FALSE)
    /\ UNCHANGED <<ipRemote, ipRemote0, pre_existing, ipAllocated, ipPost, ipTodo,
                   ipReleases, ipBefore, ipAttempt, ipOverlap, notIp>>

\* allocate_ip answers success with a body that holds no `ip`: the address is
\* allocated at the provider and `?` returns the deserialization error.
IpAllocateUndecodable(p) ==
    /\ ipPc[p] = "start"
    /\ \E c \in Addr \ ipRemote : ipRemote' = ipRemote \cup {c}
    /\ IpFail(p, [kind |-> "decode", call |-> "allocate"])
    /\ IpCall(p, "allocate", FALSE)
    /\ UNCHANGED <<ipRemote0, pre_existing, ipAllocated, ipPost, ipTodo,
                   ipReleases, ipBefore, ipAttempt, ipOverlap, notIp>>

\* list_ips answers success; the loop is entered with the symmetric difference.
IpListOk(p) ==
    /\ ipPc[p] = "allocated"
    /\ LET post == ipRemote
           todo == symmetric_difference(post, expected(pre_existing, ipAllocated[p][1]))
       IN /\ ipPost' = [ipPost EXCEPT ![p] = Some(post)]
          /\ ipTodo' = [ipTodo EXCEPT ![p] = todo]
          /\ IF todo = {}
             THEN /\ ipPc' = [ipPc EXCEPT ![p] = "done"]
                  /\ ipResult' = [ipResult EXCEPT ![p] = Some(Ok(ipAllocated[p][1]))]
             ELSE /\ ipPc' = [ipPc EXCEPT ![p] = "releasing"]
                  /\ UNCHANGED ipResult
    /\ IpCall(p, "list", TRUE)
    /\ UNCHANGED <<ipRemote, ipRemote0, pre_existing, ipAllocated, ipReleases,
                   ipBefore, ipAttempt, ipOverlap, notIp>>

\* The failed list taken for an empty list and the loop entered.
IpListErrIgnored(p) ==
    /\ ipPc[p] = "allocated"
    /\ ipPost' = [ipPost EXCEPT ![p] = Some({})]
    /\ ipTodo' = [ipTodo EXCEPT ![p] =
                     symmetric_difference({}, expected(pre_existing, ipAllocated[p][1]))]
    /\ ipPc' = [ipPc EXCEPT ![p] = "releasing"]
    /\ IpCall(p, "list", FALSE)
    /\ UNCHANGED <<ipRemote, ipRemote0, pre_existing, ipAllocated, ipReleases, ipResult,
                   ipBefore, ipAttempt, ipOverlap, notIp>>

\* list_ips answers a non-success status (or an undecodable body).
IpListErr(p) ==
    /\ ipPc[p] = "allocated"
    /\ IpFail(p, StatusError(500, "list"))
    /\ IpCall(p, "list", FALSE)
    /\ UNCHANGED <<ipRemote, ipRemote0, pre_existing, ipAllocated, ipPost, ipTodo,
                   ipReleases, ipBefore, ipAttempt, ipOverlap, notIp>>

\* An iteration that leaves the released address among the redundant ones.
IpReleaseStepKeepsTodo(p, redundant, answer) ==
    LET res == release_ip(answer.status, "release")
    IN /\ ipReleases' = [ipReleases EXCEPT ![p][redundant] = @ + 1]
       /\ ipRemote' = answer.remote
       /\ IF ~res.ok THEN IpFail(p, res.err) ELSE UNCHANGED <<ipPc, ipResult>>
       /\ IpCall(p, "release", res.ok)
       /\ UNCHANGED <<ipRemote0, pre_existing, ipAllocated, ipPost, ipTodo, ipBefore,
                     ipAttempt, ipOverlap, notIp>>

\* One iteration of the loop: release_ip(redundant), answered by the provider.
IpReleaseStep(p, redundant, answer) ==
    LET res == release_ip(answer.status, "release")
        rest == ipTodo[p] \ {redundant}
    IN /\ ipReleases' = [ipReleases EXCEPT ![p][redundant] = @ + 1]
       /\ ipRemote' = answer.remote
       /\ IF ~res.ok
          THEN /\ IpFail(p, res.err)
               /\ UNCHANGED ipTodo
          ELSE /\ ipTodo' = [ipTodo EXCEPT ![p] = rest]
               /\ IF rest = {}
                  THEN /\ ipPc' = [ipPc EXCEPT ![p] = "done"]
                       /\ ipResult' = [ipResult EXCEPT ![p] =
                                          Some(Ok(ipAllocated[p][1]))]
                  ELSE UNCHANGED <<ipPc, ipResult>>
       /\ IpCall(p, "release", res.ok)
       /\ UNCHANGED <<ipRemote0, pre_existing, ipAllocated, ipPost, ipBefore, ipAttempt,
                     ipOverlap, notIp>>

\* The DELETE is answered by the provider (2xx, or 404 when the address is gone).
IpRelease(p) ==
    /\ ipPc[p] = "releasing"
    /\ \E redundant \in ipTodo[p] :
        IpReleaseStep(p, redundant, ProviderDelete(ipRemote, redundant))

\* The DELETE is answered with another status: nothing is released.
IpReleaseErr(p) ==
    /\ ipPc[p] = "releasing"
    /\ \E redundant \in ipTodo[p] :
        IpReleaseStep(p, redundant,
                      [status |-> 500, remote |-> ipRemote])

\* One release call of Guest::release, the DELETE answered with `answer`.
RlStep(by, answer, body) ==
    /\ Len(rlCalls) < MaxReleases
    /\ ipRemote' = answer.remote
    /\ rlCalls' = Append(rlCalls, [by |-> by, status |-> answer.status, body |-> body,
                                   result |-> release_ip(answer.status, body)])
    /\ UNCHANGED <<rlIp, notRl>>

\* Guest::release, the DELETE answered by the provider.
RlRelease == RlStep("provider", ProviderDelete(ipRemote, rlIp), "release")

\* Guest::release, the DELETE answered with another status: nothing is released.
RlReleaseRefused ==
    \E status \in {302, 403, CONFLICT, 500} :
        RlStep("fault", [status |-> status, remote |-> ipRemote], "refused")

RlIdle == rlIp = 1 /\ rlCalls = <<>>
RlInit == rlIp \in Addr /\ rlCalls = <<>>

\* The process is killed after the allocation call and before it returns.
IpAbort(p) ==
    /\ ipPc[p] \in {"allocated", "releasing"}
    /\ ipPc' = [ipPc EXCEPT ![p] = "aborted"]
    /\ UNCHANGED <<ipRemote, ipRemote0, pre_existing, ipAllocated, ipPost, ipTodo,
                   ipReleases, ipResult, ipBefore, ipAttempt, ipOverlap, ipCalls, notIp>>

\* The workflow engine retries the activity with the same arguments.
IpRetry(p) ==
    /\ ipPc[p] \in {"done", "failed", "aborted"}
    /\ ipAttempt < MaxAttempts
    /\ ipAttempt' = ipAttempt + 1
    /\ ipPc' = [ipPc EXCEPT ![p] = "start"]
    /\ ipBefore' = [ipBefore EXCEPT ![p] = ipRemote]
    /\ IpLocalInit(p)
    /\ UNCHANGED <<ipRemote, ipRemote0, pre_existing, ipOverlap, notIp>>

IpInit(running, remotes, pres) ==
    /\ ipRemote \in remotes
    /\ ipRemote0 = ipRemote
    /\ pre_existing \in pres
    /\ ipPc = [p \in IpProcs |-> IF p \in running THEN "start" ELSE "idle"]
    /\ ipAllocated = [p \in IpProcs |-> None]
    /\ ipPost = [p \in IpProcs |-> None]
    /\ ipTodo = [p \in IpProcs |-> {}]
    /\ ipReleases = [p \in IpProcs |-> [a \in Addr |-> 0]]
    /\ ipResult = [p \in IpProcs |-> None]
    /\ ipBefore = [p \in IpProcs |-> ipRemote]
    /\ ipAttempt = 1
    /\ ipOverlap = FALSE
    /\ ipCalls = [p \in IpProcs |-> <<>>]

\* ======================================================================
\* machines create
\* ======================================================================
\* Strings are tuples of one-character strings.
PREFIX ==
    <<"a", "l", "r", "e", "a", "d", "y", "_", "e", "x", "i", "s", "t", "s",
      ":", " ", "u", "n", "i", "q", "u", "e", " ", "m", "a", "c", "h", "i",
      "n", "e", " ", "n", "a", "m", "e", " ", "v", "i", "o", "l", "a", "t",
      "i", "o", "n", ",", " ", "m", "a", "c", "h", "i", "n", "e", " ", "I",
      "D", " ">>
SUFFIX ==
    <<" ", "a", "l", "r", "e", "a", "d", "y", " ", "e", "x", "i", "s", "t",
      "s", " ", "w", "i", "t", "h", " ", "n", "a", "m", "e", " ">>

McProcs == 1..NMcProcs
MachineNames == {<<"f", "o", "o">>, <<"b">>}
MachineIds == {<<"3", "2", "a">>, <<"9">>, <<"a", "3">>}

Min(S) == CHOOSE x \in S : \A y \in S : x <= y

\* str::find: the byte offset of the first match of `pat`, or None
find(s, pat) ==
    LET hits == {i \in 0..(Len(s) - Len(pat)) : SubSeq(s, i + 1, i + Len(pat)) = pat}
    IN IF hits = {} THEN None ELSE Some(Min(hits))

\* The id cut one byte short.
GetMachineIdOffByOne(error) ==
    IF find(error, PREFIX) = Some(0)
    THEN LET start_idx == Len(PREFIX)
             end_idx == find(SubSeq(error, start_idx + 1, Len(error)), SUFFIX)
         IN IF end_idx # None
            THEN Some(SubSeq(error, start_idx + 1, start_idx + end_idx[1] - 1))
            ELSE None
    ELSE None

\* The prefix accepted at any offset of the message.
GetMachineIdUnanchored(error) ==
    LET at == find(error, PREFIX)
    IN IF at # None
       THEN LET start_idx == at[1] + Len(PREFIX)
                end_idx == find(SubSeq(error, start_idx + 1, Len(error)), SUFFIX)
            IN IF end_idx # None
               THEN Some(SubSeq(error, start_idx + 1, start_idx + end_idx[1]))
               ELSE None
       ELSE None

\* ResponseErrorSer::get_machine_id_on_creation_conflict
get_machine_id_on_creation_conflict(error) ==
    IF find(error, PREFIX) = Some(0)
    THEN LET start_idx == Len(PREFIX)
             end_idx == find(SubSeq(error, start_idx + 1, Len(error)), SUFFIX)
         IN IF end_idx # None
            THEN Some(SubSeq(error, start_idx + 1, start_idx + end_idx[1]))
            ELSE None
    ELSE None

\* A response: the transport failed, or a status and a JSON (or other) body.
NoResponse == [answered |-> FALSE]
Response(status, body) == [answered |-> TRUE, status |-> status, body |-> body]
NotJson == [raw |-> "not json"]

\* serde_json::from_slice::<MachineCreateResponseSer>
MachineCreateResponseSer(body) ==
    IF "id" \in DOMAIN body THEN Some(body.id) ELSE None

\* serde_json::from_slice::<ResponseErrorSer>
ResponseErrorSer(body) ==
    IF "error" \in DOMAIN body THEN Some(body.error) ELSE None

\* create with the 409 branch missing: every non-success status is an error.
CreateWithoutConflictRecovery(response) ==
    IF ~response.answered THEN Err([kind |-> "transport"])
    ELSE IF is_success(response.status)
    THEN LET resp == MachineCreateResponseSer(response.body)
         IN IF resp = None
            THEN Err([kind |-> "deserialization", body |-> response.body])
            ELSE Ok(resp[1])
    ELSE Err([kind |-> "status", status |-> response.status, body |-> response.body])

\* create with the id looked for in the error body of every non-success status.
CreateRecoversFromAnyStatus(response) ==
    IF ~response.answered THEN Err([kind |-> "transport"])
    ELSE IF is_success(response.status)
    THEN LET resp == MachineCreateResponseSer(response.body)
         IN IF resp = None
            THEN Err([kind |-> "deserialization", body |-> response.body])
            ELSE Ok(resp[1])
    ELSE LET error == ResponseErrorSer(response.body)
         IN IF error = None
            THEN Err([kind |-> "cannot parse error response", body |-> response.body])
            ELSE LET machine_id == get_machine_id_on_creation_conflict(error[1])
                 IN IF machine_id = None
                    THEN Err([kind |-> "machine id cannot be parsed from 409 error response"])
                    ELSE Ok(machine_id[1])

\* create, from the response to its POST on
create(response) ==
    IF ~response.answered THEN Err([kind |-> "transport"])
    ELSE IF is_success(response.status)
    THEN LET resp == MachineCreateResponseSer(response.body)
         IN IF resp = None
            THEN Err([kind |-> "deserialization", body |-> response.body])
            ELSE Ok(resp[1])
    ELSE IF response.status = CONFLICT
    THEN LET error == ResponseErrorSer(response.body)
         IN IF error = None
            THEN Err([kind |-> "cannot parse error response", body |-> response.body])
            ELSE LET machine_id == get_machine_id_on_creation_conflict(error[1])
                 IN IF machine_id = None
                    THEN Err([kind |-> "machine id cannot be parsed from 409 error response"])
                    ELSE Ok(machine_id[1])
    ELSE Err([kind |-> "status", status |-> response.status, body |-> response.body])

\* err.to_string() of an error of create: the text of its outermost message
\* and the values that message was formatted with. The message of the
\* unparsed machine id is a string literal: its braces are not a placeholder.
create_err_to_string(err) ==
    IF err.kind = "transport" THEN [text |-> "transport error", args |-> <<>>]
    ELSE IF err.kind = "deserialization"
    THEN [text |-> "Deserialization of response failed: {}", args |-> <<err.body>>]
    ELSE IF err.kind = "cannot parse error response"
    THEN [text |-> "cannot parse error response: {}", args |-> <<err.body>>]
    ELSE IF err.kind = "machine id cannot be parsed from 409 error response"
    THEN [text |-> "machine id cannot be parsed from 409 error response: {error:?}",
          args |-> <<>>]
    ELSE [text |-> "{error_status} - {}", args |-> <<err.status, err.body>>]

\* The conflict message of the provider, as the repository's test quotes it.
Quoted(name) == <<"\"">> \o name \o <<"\"">>
ConflictMessage(id, name) == PREFIX \o id \o SUFFIX \o Quoted(name)

\* Messages a 409 can carry: the conflict message, and messages that differ from
\* it by a wrapper in front, a damaged prefix, a missing suffix or a missing name.
ConflictMessages ==
    {lead \o pre \o id \o suf \o tail :
        lead \in {<<>>, <<"E", ":", " ">>},
        pre \in {PREFIX, SubSeq(PREFIX, 1, Len(PREFIX) - 1), <<>>},
        id \in MachineIds \cup {<<>>},
        suf \in {SUFFIX, <<>>},
        tail \in {<<>>} \cup {Quoted(n) : n \in MachineNames}}

\* Texts between the anchors that hold the suffix themselves, whole or up to
\* its last byte.
IdsHoldingSuffix ==
    {<<"9">> \o SUFFIX \o <<"b">>,
     <<"9">> \o SubSeq(SUFFIX, 1, Len(SUFFIX) - 1)}

\* `self.error` of a ResponseErrorSer: the messages above, messages with the
\* suffix twice, with the prefix twice, and the anchors in the wrong order.
ErrorInputs ==
    ConflictMessages
    \cup {PREFIX \o id \o SUFFIX \o tail :
            id \in IdsHoldingSuffix, tail \in {<<>>, Quoted(<<"b">>)}}
    \cup {PREFIX \o id \o SUFFIX \o Quoted(<<"b">>) \o SUFFIX : id \in MachineIds}
    \cup {<<"E">> \o PREFIX \o PREFIX \o id \o SUFFIX : id \in MachineIds}
    \cup {SUFFIX \o PREFIX \o id : id \in MachineIds}

\* error.get_machine_id_on_creation_conflict()
GetMachineId ==
    /\ ret = None
    /\ ret' = Some(get_machine_id_on_creation_conflict(arg))
    /\ UNCHANGED <<arg, notFn>>

\* Every response the transport can hand to create.
McResponses ==
    {NoResponse}
    \cup {Response(s, [id |-> id]) : s \in {200, 201}, id \in MachineIds}
    \cup {Response(s, NotJson) : s \in {200, CONFLICT, UNPROCESSABLE_ENTITY, 500}}
    \cup {Response(CONFLICT, [error |-> m]) : m \in ConflictMessages}
    \cup {Response(CONFLICT, [id |-> id]) : id \in MachineIds}
    \cup {Response(s, [error |-> ConflictMessage(id, <<"b">>)]) :
            s \in {302, NOT_FOUND, UNPROCESSABLE_ENTITY}, id \in MachineIds}

\* update that takes every success answer for the update of the machine.
UpdateIgnoresId(machine_id, response) ==
    IF ~response.answered THEN Err([kind |-> "transport"])
    ELSE IF is_success(response.status)
    THEN LET resp == MachineCreateResponseSer(response.body)
         IN IF resp = None
            THEN Err([kind |-> "deserialization", body |-> response.body])
            ELSE Ok(<<>>)
    ELSE Err([kind |-> "status", status |-> response.status, body |-> response.body])

\* update, from the response to its POST on
update(machine_id, response) ==
    IF ~response.answered THEN Err([kind |-> "transport"])
    ELSE IF is_success(response.status)
    THEN LET resp == MachineCreateResponseSer(response.body)
         IN IF resp = None
            THEN Err([kind |-> "deserialization", body |-> response.body])
            ELSE IF resp[1] = machine_id
            THEN Ok(<<>>)
            ELSE Err([kind |-> "unexpected id returned",
                      expected |-> machine_id, got |-> resp[1]])
    ELSE Err([kind |-> "status", status |-> response.status, body |-> response.body])

\* The requested machine and the answer to the POST.
UpdateInputs == [machine_id : MachineIds, response : McResponses]

\* update is called and returns.
MachinesUpdate ==
    /\ ret = None
    /\ ret' = Some(update(arg.machine_id, arg.response))
    /\ UNCHANGED <<arg, notFn>>

\* `machine_config` and `region` a caller asks for.
MachineConfigs ==
    {[image |-> "registry/app:1", region |-> None],
     [image |-> "registry/app:2", region |-> Some(<<"a", "m", "s">>)]}

\* A provider that treats (app, name) as a unique key: it creates the machine
\* when the name is free and answers 409 naming the existing machine otherwise.
ProviderCreateAnswers(db, name) ==
    IF \E m \in db : m.name = name
    THEN {[db |-> db,
           response |-> Response(CONFLICT, [error |-> ConflictMessage(m.id, name)])] :
            m \in {x \in db : x.name = name}}
    ELSE {[db |-> db \cup {[name |-> name, id |-> id]},
           response |-> Response(200, [id |-> id])] :
            id \in MachineIds \ {x.id : x \in db}}

\* Client::new().send(request): the POST reaches the provider and is answered.
McSend(p) ==
    /\ mcPc[p] = "start"
    /\ \E a \in ProviderCreateAnswers(mcDb, mcName[p]) :
        /\ mcDb' = a.db
        /\ mcStored' = mcStored \cup {[id |-> m.id, config |-> mcRequested[p]] :
                                          m \in a.db \ mcDb}
        /\ mcResponse' = [mcResponse EXCEPT ![p] = Some(a.response)]
    /\ mcRequests' = [mcRequests EXCEPT ![p] = @ + 1]
    /\ mcPc' = [mcPc EXCEPT ![p] = "sent"]
    /\ UNCHANGED <<mcName, mcResult, mcRequested, notMc>>

\* Client::new().send(request), answered with any response at all.
McSendAny(p) ==
    /\ mcPc[p] = "start"
    /\ \E r \in McResponses : mcResponse' = [mcResponse EXCEPT ![p] = Some(r)]
    /\ mcRequests' = [mcRequests EXCEPT ![p] = @ + 1]
    /\ mcPc' = [mcPc EXCEPT ![p] = "sent"]
    /\ UNCHANGED <<mcDb, mcName, mcResult, mcRequested, mcStored, notMc>>

\* After a 409 the existing machine read with a GET and refused when its
\* configuration is not the requested one.
McReturnComparesConfig(p) ==
    /\ mcPc[p] = "sent"
    /\ LET result == create(mcResponse[p][1])
           conflict == mcResponse[p][1].answered /\ mcResponse[p][1].status = CONFLICT
           same == \A m \in mcStored : m.id = result.val => m.config = mcRequested[p]
       IN /\ mcRequests' = [mcRequests EXCEPT ![p] = IF conflict THEN @ + 1 ELSE @]
          /\ mcResult' = [mcResult EXCEPT ![p] =
                             IF conflict /\ result.ok /\ ~same
                             THEN Some(Err([kind |-> "configuration differs"]))
                             ELSE Some(result)]
    /\ mcPc' = [mcPc EXCEPT ![p] = "done"]
    /\ UNCHANGED <<mcDb, mcName, mcResponse, mcRequested, mcStored, notMc>>

\* The rest of create: the response is turned into the result.
McReturn(p) ==
    /\ mcPc[p] = "sent"
    /\ mcResult' = [mcResult EXCEPT ![p] = Some(create(mcResponse[p][1]))]
    /\ mcPc' = [mcPc EXCEPT ![p] = "done"]
    /\ UNCHANGED <<mcDb, mcName, mcResponse, mcRequests, mcRequested, mcStored, notMc>>

McInit(running, names, configs) ==
    /\ mcDb = {}
    /\ mcStored = {}
    /\ mcRequested \in [McProcs -> configs]
    /\ mcName \in [McProcs -> names]
    /\ mcPc = [p \in McProcs |-> IF p \in running THEN "start" ELSE "idle"]
    /\ mcResponse = [p \in McProcs |-> None]
    /\ mcResult = [p \in McProcs |-> None]
    /\ mcRequests = [p \in McProcs |-> 0]

\* ======================================================================
\* apps put
\* ======================================================================
ApProcs == 1..NApProcs
Orgs == {"personal", "acme"}
AppIds == {"app-1", "app-2"}
\* `app_name`: every invocation asks for the same app.
AppNameInput == "my-app"

\* response.body_mut().json::<AppResponse>()
AppResponse(body) ==
    IF "id" \in DOMAIN body THEN Some(body.id) ELSE None

\* get_response.body_mut().json::<AppDetails>()
AppDetails(body) ==
    IF /\ {"id", "name", "organization"} \subseteq DOMAIN body
       /\ "slug" \in DOMAIN body.organization
    THEN Some(body)
    ELSE None

\* The probe sent after every non-success status of the create call.
PutCreateProbesAfterAnyFailure(app_name, response) ==
    IF ~response.answered THEN Some(Err([kind |-> "transport", call |-> "create"]))
    ELSE IF is_success(response.status)
    THEN LET app_response == AppResponse(response.body)
         IN IF app_response = None
            THEN Some(Err([kind |-> "decode", call |-> "create"]))
            ELSE Some(Ok([name |-> app_name, id |-> app_response[1]]))
    ELSE None

\* put, from the response to the create POST up to the probe: the value
\* returned, or None when the probe GET is sent next.
put_create(app_name, response) ==
    IF ~response.answered THEN Some(Err([kind |-> "transport", call |-> "create"]))
    ELSE IF is_success(response.status)
    THEN LET app_response == AppResponse(response.body)
         IN IF app_response = None
            THEN Some(Err([kind |-> "decode", call |-> "create"]))
            ELSE Some(Ok([name |-> app_name, id |-> app_response[1]]))
    ELSE IF response.status = UNPROCESSABLE_ENTITY
    THEN None
    ELSE Some(Err(StatusError(response.status, response.body)))

OrgMismatch(app_name, actual, requested) ==
    [kind |-> "organization mismatch", app |-> app_name,
     actual |-> actual, requested |-> requested]

\* The probed app never accepted: a 422 always ends in the create failure.
PutProbeNeverAccepts(org_slug, app_name, original, get_response) ==
    IF ~get_response.answered THEN Err([kind |-> "transport", call |-> "probe"])
    ELSE Err(StatusError(original.status, original.body))

\* The probed app accepted without comparing its organization.
PutProbeIgnoresOrg(org_slug, app_name, original, get_response) ==
    IF ~get_response.answered THEN Err([kind |-> "transport", call |-> "probe"])
    ELSE IF is_success(get_response.status)
    THEN LET app_details == AppDetails(get_response.body)
         IN IF app_details = None
            THEN Err([kind |-> "decode", call |-> "probe"])
            ELSE Ok([id |-> app_details[1].id, name |-> app_details[1].name])
    ELSE Err(StatusError(original.status, original.body))

\* The probe's failure reported instead of the create failure.
PutProbeReportsProbeFailure(org_slug, app_name, original, get_response) ==
    IF ~get_response.answered THEN Err([kind |-> "transport", call |-> "probe"])
    ELSE IF is_success(get_response.status)
    THEN LET app_details == AppDetails(get_response.body)
         IN IF app_details = None
            THEN Err([kind |-> "decode", call |-> "probe"])
            ELSE IF app_details[1].organization.slug = org_slug
            THEN Ok([id |-> app_details[1].id, name |-> app_details[1].name])
            ELSE Err(OrgMismatch(app_name, app_details[1].organization.slug, org_slug))
    ELSE Err(StatusError(get_response.status, get_response.body))

\* The probed app returned with its name in the place of its id.
PutProbeReturnsNameAsId(org_slug, app_name, original, get_response) ==
    IF ~get_response.answered THEN Err([kind |-> "transport", call |-> "probe"])
    ELSE IF is_success(get_response.status)
    THEN LET app_details == AppDetails(get_response.body)
         IN IF app_details = None
            THEN Err([kind |-> "decode", call |-> "probe"])
            ELSE IF app_details[1].organization.slug = org_slug
            THEN Ok([id |-> app_details[1].name, name |-> app_details[1].name])
            ELSE Err(OrgMismatch(app_name, app_details[1].organization.slug, org_slug))
    ELSE Err(StatusError(original.status, original.body))

\* put, from the response to the probe GET on; `original` is the create response.
put_probe(org_slug, app_name, original, get_response) ==
    IF ~get_response.answered THEN Err([kind |-> "transport", call |-> "probe"])
    ELSE IF is_success(get_response.status)
    THEN LET app_details == AppDetails(get_response.body)
         IN IF app_details = None
            THEN Err([kind |-> "decode", call |-> "probe"])
            ELSE IF app_details[1].organization.slug = org_slug
            THEN Ok([id |-> app_details[1].id, name |-> app_details[1].name])
            ELSE Err(OrgMismatch(app_name, app_details[1].organization.slug, org_slug))
    ELSE Err(StatusError(original.status, original.body))

\* The provider's answer to POST /apps: 422 when the name is taken by any
\* organization, a new app otherwise.
ProviderCreateApp(db, org_slug, app_name) ==
    IF \E app \in db : app.name = app_name
    THEN {[db |-> db,
           response |-> Response(UNPROCESSABLE_ENTITY, [error |-> "name taken"])]}
    ELSE {[db |-> db \cup {[name |-> app_name, id |-> id, org |-> org_slug]},
           response |-> Response(201, [id |-> id])] :
            id \in AppIds \ {app.id : app \in db}}

\* The provider's answer to GET /apps/{app_name}
ProviderGetApp(db, app_name) ==
    IF \E app \in db : app.name = app_name
    THEN {Response(200, [id |-> app.id, name |-> app.name,
                         organization |-> [slug |-> app.org]]) :
            app \in {x \in db : x.name = app_name}}
    ELSE {Response(NOT_FOUND, [error |-> "app not found"])}

\* Failures of the create call that leave the provider's apps alone.
CreateFailures ==
    {NoResponse, Response(500, [error |-> "create failed"]),
     Response(NOT_FOUND, [error |-> "org not found"])}

\* Failures of the probe: the app is gone or hidden, the provider or the
\* transport fails, or the body is not the app's details.
ProbeFailures ==
    {NoResponse, Response(NOT_FOUND, [error |-> "app not found"]),
     Response(500, [error |-> "probe failed"]), Response(200, NotJson),
     Response(200, [id |-> "app-1", name |-> AppNameInput])}

\* client.send(post_request) and what follows it up to the probe
ApCreateStep(p, db, response) ==
    LET returned == put_create(AppNameInput, response)
    IN /\ apDb' = db
       /\ apCreate' = [apCreate EXCEPT ![p] = Some(response)]
       /\ apPosts' = [apPosts EXCEPT ![p] = @ + 1]
       /\ apWrites' = [apWrites EXCEPT ![p] = IF db = apDb THEN @ ELSE @ + 1]
       /\ apResult' = [apResult EXCEPT ![p] = returned]
       /\ apPc' = [apPc EXCEPT ![p] = IF returned = None THEN "probe" ELSE "done"]
       /\ UNCHANGED <<apOrg, apProbe, apGets, notAp>>

\* The create POST is answered by the provider.
ApCreate(p) ==
    /\ apPc[p] = "start"
    /\ \E a \in ProviderCreateApp(apDb, apOrg[p], AppNameInput) :
        ApCreateStep(p, a.db, a.response)

\* The create POST fails.
ApCreateFails(p) ==
    /\ apPc[p] = "start"
    /\ \E r \in CreateFailures : ApCreateStep(p, apDb, r)

\* client.send(get_request) and the rest of put
ApProbeStep(p, get_response) ==
    /\ apProbe' = [apProbe EXCEPT ![p] = Some(get_response)]
    /\ apGets' = [apGets EXCEPT ![p] = @ + 1]
    /\ apResult' = [apResult EXCEPT ![p] =
                       Some(put_probe(apOrg[p], AppNameInput, apCreate[p][1], get_response))]
    /\ apPc' = [apPc EXCEPT ![p] = "done"]
    /\ UNCHANGED <<apDb, apOrg, apCreate, apPosts, apWrites, notAp>>

\* The probe GET is answered by the provider.
ApProbe(p) ==
    /\ apPc[p] = "probe"
    /\ \E r \in ProviderGetApp(apDb, AppNameInput) : ApProbeStep(p, r)

\* The probe GET fails.
ApProbeFails(p) ==
    /\ apPc[p] = "probe"
    /\ \E r \in ProbeFailures : ApProbeStep(p, r)

ApInit(running, dbs, orgs) ==
    /\ apDb \in dbs
    /\ apOrg \in [ApProcs -> orgs]
    /\ apPc = [p \in ApProcs |-> IF p \in running THEN "start" ELSE "idle"]
    /\ apCreate = [p \in ApProcs |-> None]
    /\ apProbe = [p \in ApProcs |-> None]
    /\ apResult = [p \in ApProcs |-> None]
    /\ apPosts = [p \in ApProcs |-> 0]
    /\ apGets = [p \in ApProcs |-> 0]
    /\ apWrites = [p \in ApProcs |-> 0]

\* The app is absent, or exists already under one of the organizations.
AppDbInputs ==
    {{}} \cup {{[name |-> AppNameInput, id |-> "app-0", org |-> o]} : o \in Orgs}

\* ======================================================================
\* ips list: the region of an address
\* ======================================================================
\* The ASCII letters of the inputs, upper case to lower case and back.
AsciiLower ==
    [A |-> "a", B |-> "b", G |-> "g", L |-> "l", M |-> "m", O |-> "o", S |-> "s",
     X |-> "x"]
AsciiUpper ==
    [a |-> "A", b |-> "B", g |-> "G", l |-> "L", m |-> "M", o |-> "O", s |-> "S",
     x |-> "X"]

\* str::to_ascii_lowercase
to_ascii_lowercase(str) ==
    [i \in DOMAIN str |-> IF str[i] \in DOMAIN AsciiLower THEN AsciiLower[str[i]] ELSE str[i]]

\* str::eq_ignore_ascii_case
eq_ignore_ascii_case(a, b) == to_ascii_lowercase(a) = to_ascii_lowercase(b)

GLOBAL == <<"g", "l", "o", "b", "a", "l">>
\* The names Region deserializes from: the kebab-case names of its variants.
RegionNames == {<<"a", "m", "s">>}

\* Region::deserialize(StrDeserializer::new(..))
Region_deserialize(str) ==
    IF str \in RegionNames THEN Ok(str) ELSE Err("unknown variant")

\* A JSON value of the `region` field: null, a string, or a number.
JsonNull == [json |-> "null"]
JsonString(str) == [json |-> "string", str |-> str]
JsonNumber == [json |-> "number"]

\* Option::<String>::deserialize
OptionString_deserialize(value) ==
    IF value.json = "null" THEN Ok(None)
    ELSE IF value.json = "string" THEN Ok(Some(value.str))
    ELSE Err("invalid type")

\* "global" recognised in lower case only.
DeserializeRegionGlobalLowerCaseOnly(value) ==
    LET s == OptionString_deserialize(value)
    IN IF ~s.ok THEN s
       ELSE IF s.val = None THEN Ok(None)
       ELSE IF s.val[1] = GLOBAL THEN Ok(None)
       ELSE LET region == Region_deserialize(to_ascii_lowercase(s.val[1]))
            IN IF region.ok THEN Ok(Some(region.val)) ELSE region

\* deserialize_optional_region
deserialize_optional_region(value) ==
    LET s == OptionString_deserialize(value)
    IN IF ~s.ok THEN s
       ELSE IF s.val = None THEN Ok(None)
       ELSE IF eq_ignore_ascii_case(s.val[1], GLOBAL) THEN Ok(None)
       ELSE LET region == Region_deserialize(to_ascii_lowercase(s.val[1]))
            IN IF region.ok THEN Ok(Some(region.val)) ELSE region

\* response.body_mut().json::<ListIpsResponse>(), of which only the regions of
\* the entries are kept: the first entry that fails fails the whole response.
ListIpsResponse(values) ==
    IF \E i \in DOMAIN values : ~deserialize_optional_region(values[i]).ok
    THEN Err("deserialization of the list response")
    ELSE Ok([i \in DOMAIN values |-> deserialize_optional_region(values[i]).val])

\* Every way of writing a word in upper and lower case letters.
CaseVariants(word) ==
    {[i \in DOMAIN word |-> IF i \in up THEN AsciiUpper[word[i]] ELSE word[i]] :
        up \in SUBSET DOMAIN word}

\* Region values of a list response: null, "global" and the region names in
\* every letter case, names that are no region, and a number.
RegionValues ==
    {JsonNull, JsonNumber}
    \cup {JsonString(v) : v \in CaseVariants(GLOBAL)}
    \cup {JsonString(v) : v \in UNION {CaseVariants(r) : r \in RegionNames}}
    \cup {JsonString(v) : v \in {<<>>, <<"x", "x">>, GLOBAL \o <<"s">>, <<" ">> \o GLOBAL,
                                  <<"a", "m">>, <<"A", "M", "S", "-", "2">>}}

\* The regions of the entries of a list response: one entry, or two.
ListIpsInputs ==
    {<<v>> : v \in RegionValues}
    \cup {<<v, w>> : v \in RegionValues,
                     w \in {JsonNull, JsonString(<<"A", "m", "s">>), JsonString(<<"x", "x">>)}}

\* list_ips decodes the response.
ListIpsDecode ==
    /\ ret = None
    /\ ret' = Some(ListIpsResponse(arg))
    /\ UNCHANGED <<arg, notFn>>

\* str::starts_with
starts_with(text, prefix) ==
    /\ Len(text) >= Len(prefix)
    /\ SubSeq(text, 1, Len(prefix)) = prefix

FDAA == <<"f", "d", "a", "a">>
COLON == <<":">>

\* The private prefix looked for before the colon, anywhere in the address.
IpVariantPrivateAnywhere(fly_ip) ==
    IF find(fly_ip.ip, FDAA) # None
    THEN [variant |-> "ipv6-private"]
    ELSE IF find(fly_ip.ip, COLON) # None
    THEN [variant |-> "ipv6", region |-> fly_ip.region]
    ELSE [variant |-> "ipv4",
          shared |-> IF fly_ip.shared = None THEN FALSE ELSE fly_ip.shared[1],
          region |-> fly_ip.region]

\* The closure of list_ips that gives a decoded entry its variant.
ip_variant(fly_ip) ==
    IF find(fly_ip.ip, COLON) # None
    THEN IF starts_with(fly_ip.ip, FDAA)
         THEN [variant |-> "ipv6-private"]
         ELSE [variant |-> "ipv6", region |-> fly_ip.region]
    ELSE [variant |-> "ipv4",
          shared |-> IF fly_ip.shared = None THEN FALSE ELSE fly_ip.shared[1],
          region |-> fly_ip.region]

\* ips::IpDetail of a decoded entry
ip_detail(fly_ip) == [ip |-> fly_ip.ip, ip_variant |-> ip_variant(fly_ip)]

\* Address texts: with and without a colon, with the private prefix at the
\* start, in upper case, after a blank, further in, cut short, and none.
IpTexts ==
    {FDAA \o <<":", "1">>, FDAA, FDAA \o <<".", "1">>,
     <<"F", "D", "A", "A", ":", "1">>, <<" ">> \o FDAA \o <<":">>,
     <<"2", "a", "0", "9", ":">> \o FDAA, <<"f", "d", "a", ":", "a">>,
     <<":", ":", "1">>, <<"1", ".", "2">>, <<>>}

\* Decoded entries of a list response.
FlyIpDetails ==
    [ip : IpTexts,
     region : {None, Some(<<"a", "m", "s">>)},
     shared : {None, Some(TRUE), Some(FALSE)}]

\* list_ips maps a decoded entry to its detail.
ListIpsClassify ==
    /\ ret = None
    /\ ret' = Some(ip_detail(arg))
    /\ UNCHANGED <<arg, notFn>>

\* ======================================================================
\* docker_cli: exec and check_exists
\* ======================================================================
\* Texts are sequences of words and line breaks.
\* str::contains
contains(text, pat) == find(text, pat) # None

IsWhitespace(word) == word \in {" ", "\n"}
\* str::trim
RECURSIVE trim(_)
trim(text) ==
    IF text = <<>> THEN text
    ELSE IF IsWhitespace(text[1]) THEN trim(Tail(text))
    ELSE IF IsWhitespace(text[Len(text)]) THEN trim(SubSeq(text, 1, Len(text) - 1))
    ELSE text

\* {:?} of the exit status, an Option<u32>
ExitStatusDebug(exit_status) ==
    IF exit_status = None THEN "None"
    ELSE IF exit_status[1] = 0 THEN "Some(0)"
    ELSE IF exit_status[1] = 1 THEN "Some(1)"
    ELSE "Some(n)"

\* What one run of `docker` does: spawn fails with an error (None when it
\* succeeds), the pipes can be taken or not, waiting returns the exit status
\* or fails, and each stream is read to a text or fails.
DockerRun(spawn, take_stdout, take_stderr, wait, stdout, stderr) ==
    [spawn |-> spawn, take_stdout |-> take_stdout, take_stderr |-> take_stderr,
     wait |-> wait, stdout |-> stdout, stderr |-> stderr]

\* exec: the trimmed stdout of the command, or the first failure
exec(run) ==
    IF run.spawn # None
    THEN Err(<<"Failed", "to", "spawn", "docker", "process:">> \o run.spawn[1])
    ELSE IF ~run.take_stdout THEN Err(<<"Failed", "to", "take", "stdout">>)
    ELSE IF ~run.take_stderr THEN Err(<<"Failed", "to", "take", "stderr">>)
    ELSE IF ~run.wait.ok
    THEN Err(<<"Failed", "to", "wait", "on", "process:">> \o run.wait.err)
    ELSE IF ~run.stdout.ok THEN Err(run.stdout.err)
    ELSE IF ~run.stderr.ok THEN Err(run.stderr.err)
    ELSE IF run.wait.val # Some(0)
    THEN Err(<<"Docker", "command", "failed", "(Exit", ExitStatusDebug(run.wait.val), ").",
               "\n", "Stderr:">> \o trim(run.stderr.val)
             \o <<"\n", "Stdout:">> \o trim(run.stdout.val))
    ELSE Ok(trim(run.stdout.val))

\* check_exists with every failure of exec taken for an absent resource.
CheckExistsFailureIsAbsent(run) ==
    IF exec(run).ok THEN Ok(TRUE) ELSE Ok(FALSE)

\* check_exists(resource_type, name), given what `docker inspect` does
check_exists(run) ==
    LET res == exec(run)
    IN IF res.ok THEN Ok(TRUE)
       ELSE LET err_str == res.err
            IN IF \/ contains(err_str, <<"No", "such">>)
                  \/ contains(err_str, <<"Error:", "No", "such", "object">>)
               THEN Ok(FALSE)
               ELSE Err(res.err)

\* Texts of the streams and of the errors of the runtime.
NoSuchObject == <<"Error:", "No", "such", "object:", "db">>
NoSuchContainer == <<"Error", "response", "from", "daemon:", "No", "such", "container:", "db">>
StreamTexts ==
    {<<>>, <<"[", "{", "}", "]", "\n">>, NoSuchObject \o <<"\n">>, NoSuchContainer,
     <<"permission", "denied">>, <<"no", "such", "host">>, <<"No", "\n", "such">>}
SpawnErrors == {<<"NotFound">>, <<"No", "such", "file", "or", "directory">>}
IoErrors == {<<"stream", "closed">>, <<"No", "such", "device">>}
ExitStatuses == {Some(0), Some(1), Some(125), None}

\* The runs: a failed spawn, pipes that cannot be taken, and every combination
\* of exit status (or failed wait) and streams.
DockerRuns ==
    {DockerRun(Some(e), TRUE, TRUE, Ok(None), Ok(<<>>), Ok(<<>>)) : e \in SpawnErrors}
    \cup {DockerRun(None, out, err, Ok(Some(0)), Ok(<<>>), Ok(NoSuchObject)) :
            out \in BOOLEAN, err \in BOOLEAN}
    \cup {DockerRun(None, TRUE, TRUE, wait, stdout, stderr) :
            wait \in {Ok(x) : x \in ExitStatuses} \cup {Err(e) : e \in IoErrors},
            stdout \in {Ok(<<>>), Ok(<<"[", "{", "}", "]", "\n">>), Ok(NoSuchObject)}
                        \cup {Err(e) : e \in IoErrors},
            stderr \in {Ok(t) : t \in StreamTexts} \cup {Err(e) : e \in IoErrors}}

\* check_exists is called and returns.
CheckExists ==
    /\ ret = None
    /\ ret' = Some(check_exists(arg))
    /\ UNCHANGED <<arg, notFn>>

\* ======================================================================
\* apps, machines, volumes, secrets: delete
\* ======================================================================
\* apps delete, from the response to its DELETE on
apps_delete(response) ==
    IF ~response.answered THEN Err([kind |-> "transport"])
    ELSE IF is_success(response.status) THEN Ok(<<>>)
    ELSE Err(StatusError(response.status, response.body))

\* send_request that takes a 404 for success, as release_ip does.
SendRequestNotFoundIsOk(response) ==
    IF ~response.answered THEN Err([kind |-> "transport"])
    ELSE IF is_success(response.status) THEN Ok(<<>>)
    ELSE IF response.status = NOT_FOUND THEN Ok(<<>>)
    ELSE Err(StatusError(response.status, response.body))

\* send_request(url, method) of machines, from the response on
send_request(response) ==
    IF ~response.answered THEN Err([kind |-> "transport"])
    ELSE IF is_success(response.status) THEN Ok(<<>>)
    ELSE Err(StatusError(response.status, response.body))

\* volumes delete, from the response on
volumes_delete(response) ==
    IF ~response.answered THEN Err([kind |-> "transport"])
    ELSE IF is_success(response.status) THEN Ok(<<>>)
    ELSE Err(StatusError(response.status, response.body))

\* delete_secret, from the response on
delete_secret(response) ==
    IF ~response.answered THEN Err([kind |-> "transport"])
    ELSE IF is_success(response.status) THEN Ok(<<>>)
    ELSE Err([kind |-> "failed to delete secret", status |-> response.status,
              body |-> response.body])

DeleteOps == {"apps delete", "machines delete", "volumes delete", "secrets delete"}

\* The provider's answers to a DELETE: the resource is deleted, or is not
\* there; or the call fails and the resource stays.
ProviderDeleteResource(present, op) ==
    {IF op \in present
     THEN [response |-> Response(200, [ok |-> TRUE]), present |-> present \ {op}]
     ELSE [response |-> Response(NOT_FOUND, [error |-> "not found"]), present |-> present],
     [response |-> Response(500, [error |-> "delete failed"]), present |-> present],
     [response |-> NoResponse, present |-> present]}

\* One delete call: the DELETE is answered and the operation returns.
DlCall(op, answer, result) ==
    /\ Len(dlCalls) < MaxDeletes
    /\ dlPresent' = answer.present
    /\ dlCalls' = Append(dlCalls, [op |-> op, response |-> answer.response,
                                   result |-> result])
    /\ UNCHANGED notDl

AppsDelete ==
    \E a \in ProviderDeleteResource(dlPresent, "apps delete") :
        DlCall("apps delete", a, apps_delete(a.response))
MachinesDelete ==
    \E a \in ProviderDeleteResource(dlPresent, "machines delete") :
        DlCall("machines delete", a, send_request(a.response))
VolumesDelete ==
    \E a \in ProviderDeleteResource(dlPresent, "volumes delete") :
        DlCall("volumes delete", a, volumes_delete(a.response))
SecretsDelete ==
    \E a \in ProviderDeleteResource(dlPresent, "secrets delete") :
        DlCall("secrets delete", a, delete_secret(a.response))

DlInit(presents) == dlPresent \in presents /\ dlCalls = <<>>

\* ======================================================================
\* docker: containers, networks, volumes
\* ======================================================================
\* Every operation is given the one name DockerName; ids are what docker prints.
DockerName == "db"
ContainerId == <<"c0ffee">>
NetworkId == <<"4e7w0rk">>
Unit == <<>>
ContainerStates == {"running", "exited", "created"}

\* What the daemon holds under the name: a container in a state or none, a
\* network or none, a volume or none.
Daemons ==
    [container : ContainerStates \cup {"absent"}, network : BOOLEAN, volume : BOOLEAN]

\* A docker command that ran to its exit.
Exited(code, stdout, stderr) ==
    DockerRun(None, TRUE, TRUE, Ok(Some(code)), Ok(stdout), Ok(stderr))

\* Texts docker prints.
NoSuch(type) == <<"Error", "response", "from", "daemon:", "No", "such", type, DockerName>>
InspectedContainer(state) ==
    <<"[", "Id", ContainerId[1], "State.Status", state, "]", "\n">>
InspectedOther == <<"[", "Id", NetworkId[1], "]", "\n">>
NameConflict ==
    <<"Error", "response", "from", "daemon:", "Conflict", ".", "The", "container", "name",
      DockerName, "is", "already", "in", "use", "by", "container", ContainerId[1]>>
NameInUse == <<"The", "name", DockerName, "is", "already", "in", "use">>
NameConflictOnly == <<"Error", "response", "from", "daemon:", "Conflict", "on", DockerName>>
ImageMissing == <<"Unable", "to", "find", "image">>
DaemonDown == <<"Cannot", "connect", "to", "the", "Docker", "daemon">>

Answer(run, daemon) == [run |-> run, daemon |-> daemon]
Fails(text, daemon) == Answer(Exited(1, <<>>, text), daemon)

\* What the daemon does with a command: the run of the docker process and
\* what the daemon holds after it. Every command can find the daemon down.
DockerAnswers(args, d) ==
    {Fails(DaemonDown, d)} \cup
    IF args = <<"inspect", "--type", "container", DockerName>>
    THEN IF d.container # "absent"
         THEN {Answer(Exited(0, InspectedContainer(d.container), <<>>), d)}
         ELSE {Answer(Exited(1, <<"[]", "\n">>, NoSuch("container:")), d)}
    ELSE IF args = <<"inspect", "--type", "network", DockerName>>
    THEN IF d.network
         THEN {Answer(Exited(0, InspectedOther, <<>>), d)}
         ELSE {Answer(Exited(1, <<"[]", "\n">>, NoSuch("network:")), d)}
    ELSE IF args = <<"inspect", "--type", "volume", DockerName>>
    THEN IF d.volume
         THEN {Answer(Exited(0, InspectedOther, <<>>), d)}
         ELSE {Answer(Exited(1, <<"[]", "\n">>, NoSuch("volume:")), d)}
    ELSE IF args = <<"inspect", DockerName>>
    THEN IF d.container # "absent"
         THEN {Answer(Exited(0, InspectedContainer(d.container), <<>>), d)}
         ELSE IF d.network \/ d.volume
         THEN {Answer(Exited(0, InspectedOther, <<>>), d)}
         ELSE {Answer(Exited(1, <<"[]", "\n">>, NoSuch("object:")), d)}
    ELSE IF args = <<"run", "-d", "--name", DockerName>>
    THEN IF d.container = "absent"
         THEN {Answer(Exited(0, ContainerId \o <<"\n">>, <<>>),
                      [d EXCEPT !.container = "running"]),
               Answer(Exited(125, <<>>, ImageMissing), d)}
         ELSE {Answer(Exited(125, <<>>, text), after) :
                  text \in {NameConflict, NameInUse, NameConflictOnly},
                  \* the container can be removed by its owner right after
                  after \in {d, [d EXCEPT !.container = "absent"]}}
    ELSE IF args = <<"start", DockerName>>
    THEN IF d.container # "absent"
         THEN {Answer(Exited(0, <<DockerName, "\n">>, <<>>),
                      [d EXCEPT !.container = "running"])}
         ELSE {Fails(NoSuch("container:"), d)}
    ELSE IF args = <<"stop", DockerName>>
    THEN IF d.container # "absent"
         THEN {Answer(Exited(0, <<DockerName, "\n">>, <<>>),
                      [d EXCEPT !.container =
                          IF d.container = "running" THEN "exited" ELSE d.container])}
         ELSE {Fails(NoSuch("container:"), d)}
    ELSE IF args \in {<<"rm", DockerName>>, <<"rm", "-f", DockerName>>}
    THEN IF d.container = "absent" THEN {Fails(NoSuch("container:"), d)}
         ELSE IF d.container = "running" /\ args = <<"rm", DockerName>>
         THEN {Fails(<<"cannot", "remove", "container:", "container", "is", "running">>, d)}
         ELSE {Answer(Exited(0, <<DockerName, "\n">>, <<>>),
                      [d EXCEPT !.container = "absent"])}
    ELSE IF args = <<"network", "create", DockerName>>
    THEN IF d.network
         THEN {Fails(<<"network", "with", "name", DockerName, "already", "exists">>, d)}
         ELSE {Answer(Exited(0, NetworkId \o <<"\n">>, <<>>), [d EXCEPT !.network = TRUE])}
    ELSE IF args = <<"network", "rm", DockerName>>
    THEN IF d.network
         THEN {Answer(Exited(0, <<DockerName, "\n">>, <<>>), [d EXCEPT !.network = FALSE])}
         ELSE {Fails(NoSuch("network:"), d)}
    ELSE IF args = <<"volume", "create", DockerName>>
    THEN {Answer(Exited(0, <<DockerName, "\n">>, <<>>), [d EXCEPT !.volume = TRUE])}
    ELSE IF args = <<"volume", "rm", DockerName>>
    THEN IF d.volume
         THEN {Answer(Exited(0, <<DockerName, "\n">>, <<>>), [d EXCEPT !.volume = FALSE])}
         ELSE {Fails(NoSuch("volume:"), d)}
    ELSE {}

\* docker_cli::exec(args) run against the daemon: its result and the daemon after.
Exec(args, d) ==
    {[args |-> args, res |-> exec(a.run), daemon |-> a.daemon] : a \in DockerAnswers(args, d)}

\* docker_cli::check_exists(resource_type, name) run against the daemon
CheckExistsOf(resource_type, d) ==
    {[args |-> <<"inspect", "--type", resource_type, DockerName>>,
      res |-> check_exists(a.run), daemon |-> a.daemon] :
        a \in DockerAnswers(<<"inspect", "--type", resource_type, DockerName>>, d)}

\* A command an operation ran, with what it returned.
Cmd(c) == [args |-> c.args, res |-> c.res]
\* What an operation returns, what the daemon holds then, the commands it ran.
Outcome(result, daemon, cmds) == [result |-> result, daemon |-> daemon, cmds |-> cmds]

\* serde_json::from_str::<Vec<DockerInspectContainer>>
DockerInspectContainers_from_str(text) ==
    IF text = <<"[]">> THEN Ok(<<>>)
    ELSE IF /\ Len(text) = 6
            /\ text[1] = "[" /\ text[2] = "Id" /\ text[4] = "State.Status" /\ text[6] = "]"
    THEN Ok(<<[id |-> <<text[3]>>, state |-> text[5]]>>)
    ELSE Err(<<"Failed", "to", "parse", "inspect", "output">>)

\* inspect_container, given the result of its exec
inspect_container(res) ==
    IF res.ok
    THEN LET details == DockerInspectContainers_from_str(res.val)
         IN IF ~details.ok THEN Err(details.err)
            ELSE IF details.val # <<>> THEN Ok(Some(details.val[1]))
            ELSE Ok(None)
    ELSE Ok(None)

ExistsInState(state) ==
    <<"Container", DockerName, "exists", "but", "is", "in", "state", state, ".",
      "Use", "start", "to", "resume", "or", "rm", "to", "replace", ".">>
ContainerNotFound == <<"Container", DockerName, "not", "found">>

\* run_container that returns the id of the conflicting container whatever
\* state it is in.
RunContainerAnyState(d) ==
    UNION {
        IF r.res.ok THEN {Outcome(Ok(r.res.val), r.daemon, <<Cmd(r)>>)}
        ELSE IF \/ contains(r.res.err, <<"Conflict">>)
                \/ contains(r.res.err, <<"is", "already", "in", "use">>)
        THEN {LET inspect == inspect_container(i.res)
              IN Outcome(IF ~inspect.ok THEN Err(inspect.err)
                         ELSE IF inspect.val # None THEN Ok(inspect.val[1].id)
                         ELSE Err(r.res.err),
                         i.daemon, <<Cmd(r), Cmd(i)>>) :
                i \in Exec(<<"inspect", DockerName>>, r.daemon)}
        ELSE {Outcome(Err(r.res.err), r.daemon, <<Cmd(r)>>)} :
        r \in Exec(<<"run", "-d", "--name", DockerName>>, d)}

\* run_container(name, config): the config adds arguments the daemon model
\* does not look at.
run_container(d) ==
    UNION {
        IF r.res.ok THEN {Outcome(Ok(r.res.val), r.daemon, <<Cmd(r)>>)}
        ELSE IF \/ contains(r.res.err, <<"Conflict">>)
                \/ contains(r.res.err, <<"is", "already", "in", "use">>)
        THEN {LET inspect == inspect_container(i.res)
              IN Outcome(IF ~inspect.ok THEN Err(inspect.err)
                         ELSE IF inspect.val # None
                         THEN IF inspect.val[1].state = "running"
                              THEN Ok(inspect.val[1].id)
                              ELSE Err(ExistsInState(inspect.val[1].state))
                         ELSE Err(r.res.err),
                         i.daemon, <<Cmd(r), Cmd(i)>>) :
                i \in Exec(<<"inspect", DockerName>>, r.daemon)}
        ELSE {Outcome(Err(r.res.err), r.daemon, <<Cmd(r)>>)} :
        r \in Exec(<<"run", "-d", "--name", DockerName>>, d)}

\* start_container(name)
start_container(d) ==
    UNION {
        LET inspect == inspect_container(i.res)
        IN IF ~inspect.ok THEN {Outcome(Err(inspect.err), i.daemon, <<Cmd(i)>>)}
           ELSE IF inspect.val = None
           THEN {Outcome(Err(ContainerNotFound), i.daemon, <<Cmd(i)>>)}
           ELSE IF inspect.val[1].state = "running"
           THEN {Outcome(Ok(Unit), i.daemon, <<Cmd(i)>>)}
           ELSE {Outcome(IF r.res.ok THEN Ok(Unit) ELSE Err(r.res.err),
                         r.daemon, <<Cmd(i), Cmd(r)>>) :
                    r \in Exec(<<"start", DockerName>>, i.daemon)} :
        i \in Exec(<<"inspect", DockerName>>, d)}

\* stop_container(name): the result of `docker stop` is dropped
stop_container(d) ==
    UNION {
        IF ~c.res.ok THEN {Outcome(Err(c.res.err), c.daemon, <<Cmd(c)>>)}
        ELSE IF ~c.res.val THEN {Outcome(Ok(Unit), c.daemon, <<Cmd(c)>>)}
        ELSE {Outcome(Ok(Unit), r.daemon, <<Cmd(c), Cmd(r)>>) :
                r \in Exec(<<"stop", DockerName>>, c.daemon)} :
        c \in CheckExistsOf("container", d)}

\* An existence check followed by a command whose failure is returned: the
\* body shared by rm_container, rm_network and rm_volume.
RemoveIfExists(resource_type, args, d) ==
    UNION {
        IF ~c.res.ok THEN {Outcome(Err(c.res.err), c.daemon, <<Cmd(c)>>)}
        ELSE IF ~c.res.val THEN {Outcome(Ok(Unit), c.daemon, <<Cmd(c)>>)}
        ELSE {Outcome(IF r.res.ok THEN Ok(Unit) ELSE Err(r.res.err),
                      r.daemon, <<Cmd(c), Cmd(r)>>) :
                r \in Exec(args, c.daemon)} :
        c \in CheckExistsOf(resource_type, d)}

\* rm_container without the existence check.
RmContainerUnchecked(force, d) ==
    {Outcome(IF r.res.ok THEN Ok(Unit) ELSE Err(r.res.err), r.daemon, <<Cmd(r)>>) :
        r \in Exec(IF force THEN <<"rm", "-f", DockerName>> ELSE <<"rm", DockerName>>, d)}

\* rm_container(name, force)
rm_container(force, d) ==
    RemoveIfExists("container",
                   IF force THEN <<"rm", "-f", DockerName>> ELSE <<"rm", DockerName>>, d)

\* rm_network(name)
rm_network(d) == RemoveIfExists("network", <<"network", "rm", DockerName>>, d)

\* rm_volume(name)
rm_volume(d) == RemoveIfExists("volume", <<"volume", "rm", DockerName>>, d)

\* create_network that returns the name also when it creates the network.
CreateNetworkReturnsName(d) ==
    UNION {
        IF ~c.res.ok THEN {Outcome(Err(c.res.err), c.daemon, <<Cmd(c)>>)}
        ELSE IF c.res.val THEN {Outcome(Ok(<<DockerName>>), c.daemon, <<Cmd(c)>>)}
        ELSE {Outcome(IF r.res.ok THEN Ok(<<DockerName>>) ELSE Err(r.res.err),
                      r.daemon, <<Cmd(c), Cmd(r)>>) :
                r \in Exec(<<"network", "create", DockerName>>, c.daemon)} :
        c \in CheckExistsOf("network", d)}

\* create_network(name, driver) with no driver
create_network(d) ==
    UNION {
        IF ~c.res.ok THEN {Outcome(Err(c.res.err), c.daemon, <<Cmd(c)>>)}
        ELSE IF c.res.val THEN {Outcome(Ok(<<DockerName>>), c.daemon, <<Cmd(c)>>)}
        ELSE {Outcome(IF r.res.ok THEN Ok(r.res.val) ELSE Err(r.res.err),
                      r.daemon, <<Cmd(c), Cmd(r)>>) :
                r \in Exec(<<"network", "create", DockerName>>, c.daemon)} :
        c \in CheckExistsOf("network", d)}

\* create_volume(name)
create_volume(d) ==
    UNION {
        IF ~c.res.ok THEN {Outcome(Err(c.res.err), c.daemon, <<Cmd(c)>>)}
        ELSE IF c.res.val THEN {Outcome(Ok(<<DockerName>>), c.daemon, <<Cmd(c)>>)}
        ELSE {Outcome(IF r.res.ok THEN Ok(<<DockerName>>) ELSE Err(r.res.err),
                      r.daemon, <<Cmd(c), Cmd(r)>>) :
                r \in Exec(<<"volume", "create", DockerName>>, c.daemon)} :
        c \in CheckExistsOf("volume", d)}

\* One operation of the component is performed from start to end.
DkPerform(op, force, outcomes) ==
    /\ dkCount < MaxOps
    /\ \E o \in outcomes :
        /\ dkDaemon' = o.daemon
        /\ dkResult' = Some(o.result)
        /\ dkCmds' = o.cmds
    /\ dkBefore' = dkDaemon
    /\ dkOp' = Some([op |-> op, force |-> force])
    /\ dkPrev' = IF dkOp = None THEN None
                 ELSE Some([op |-> dkOp[1].op, force |-> dkOp[1].force,
                            result |-> dkResult[1]])
    /\ dkCount' = dkCount + 1
    /\ UNCHANGED notDk

\* The exported functions of containers, networks and volumes.
ContainersRun == DkPerform("containers run", FALSE, run_container(dkDaemon))
ContainersStart == DkPerform("containers start", FALSE, start_container(dkDaemon))
ContainersStop == DkPerform("containers stop", FALSE, stop_container(dkDaemon))
ContainersRm ==
    \E force \in BOOLEAN :
        DkPerform("containers rm", force, rm_container(force, dkDaemon))
NetworksCreate == DkPerform("networks create", FALSE, create_network(dkDaemon))
NetworksRm == DkPerform("networks rm", FALSE, rm_network(dkDaemon))
VolumesCreate == DkPerform("volumes create", FALSE, create_volume(dkDaemon))
VolumesRm == DkPerform("volumes rm", FALSE, rm_volume(dkDaemon))

DkInit(daemons) ==
    /\ dkDaemon \in daemons
    /\ dkBefore = dkDaemon
    /\ dkOp = None
    /\ dkResult = None
    /\ dkCmds = <<>>
    /\ dkPrev = None
    /\ dkCount = 0

\* ======================================================================
\* The operations of the component: validation, token, requests
\* ======================================================================
\* char::is_ascii_alphanumeric
is_ascii_alphanumeric(c) ==
    c \in {"a", "b", "m", "p", "y", "z", "A", "Z", "0", "1", "9"}

\* SafeUrlPart::new
SafeUrlPart_new(s) ==
    IF \A i \in DOMAIN s : is_ascii_alphanumeric(s[i]) \/ s[i] = "-"
    THEN Ok(s)
    ELSE Err("illegal slug")

\* request_with_api_token sending no Authorization header when the variable
\* is absent.
RequestWithoutToken(token) ==
    IF token = None THEN Ok([Authorization |-> <<>>])
    ELSE Ok([Authorization |-> <<"Bearer", token[1]>>])

\* request_with_api_token
request_with_api_token(token) ==
    IF token = None
    THEN Err("cannot obtain FLY_API_TOKEN")
    ELSE Ok([Authorization |-> <<"Bearer", token[1]>>])

\* A parameter the Guest function wraps in a SafeUrlPart, and one it passes on
\* as the String it received.
Safe(name) == [name |-> name, safe |-> TRUE]
Raw(name) == [name |-> name, safe |-> FALSE]
\* A request: its method and the parameters interpolated into its URL.
Call(method, url) == [method |-> method, url |-> url]

\* Every operation: its identifier parameters in the order the Guest function
\* validates them, and the requests it can send, in program order.
Operation(params, calls) == [params |-> params, calls |-> calls]
AppsOperations ==
    [get |-> Operation(<<Safe("app_name")>>, <<Call("GET", <<"app_name">>)>>),
     put |-> Operation(<<Safe("org_slug"), Safe("app_name")>>,
                       <<Call("POST", <<>>), Call("GET", <<"app_name">>)>>),
     list |-> Operation(<<Safe("org_slug")>>, <<Call("GET", <<"org_slug">>)>>),
     delete |-> Operation(<<Safe("app_name")>>, <<Call("DELETE", <<"app_name">>)>>)]
MachineUrl == <<"app_name", "machine_id">>
MachineParams == <<Raw("app_name"), Raw("machine_id")>>
MachinesOperations ==
    [list |-> Operation(<<Raw("app_name")>>, <<Call("GET", <<"app_name">>)>>),
     get |-> Operation(MachineParams, <<Call("GET", MachineUrl)>>),
     create |-> Operation(<<Raw("app_name")>>, <<Call("POST", <<"app_name">>)>>),
     update |-> Operation(MachineParams, <<Call("POST", MachineUrl)>>),
     stop |-> Operation(MachineParams, <<Call("POST", MachineUrl)>>),
     suspend |-> Operation(MachineParams, <<Call("POST", MachineUrl)>>),
     start |-> Operation(MachineParams, <<Call("POST", MachineUrl)>>),
     restart |-> Operation(MachineParams, <<Call("POST", MachineUrl)>>),
     delete |-> Operation(MachineParams, <<Call("DELETE", MachineUrl)>>),
     exec |-> Operation(MachineParams, <<Call("POST", MachineUrl)>>)]
IpsOperations ==
    [allocate |-> Operation(<<Safe("app_name")>>,
                            <<Call("POST", <<"app_name">>), Call("GET", <<"app_name">>),
                              Call("DELETE", <<"app_name">>)>>),
     list |-> Operation(<<Safe("app_name")>>, <<Call("GET", <<"app_name">>)>>),
     release |-> Operation(<<Safe("app_name"), Raw("ip")>>,
                           <<Call("DELETE", <<"app_name", "ip">>)>>)]
SecretsOperations ==
    [list |-> Operation(<<Safe("app_name")>>, <<Call("GET", <<"app_name">>)>>),
     delete |-> Operation(<<Safe("app_name"), Safe("secret_name")>>,
                          <<Call("DELETE", <<"app_name", "secret_name">>)>>)]
VolumeUrl == <<"app_name", "volume_id">>
VolumeParams == <<Safe("app_name"), Safe("volume_id")>>
VolumesOperations ==
    [list |-> Operation(<<Safe("app_name")>>, <<Call("GET", <<"app_name">>)>>),
     create |-> Operation(<<Safe("app_name")>>, <<Call("POST", <<"app_name">>)>>),
     get |-> Operation(VolumeParams, <<Call("GET", VolumeUrl)>>),
     delete |-> Operation(VolumeParams, <<Call("DELETE", VolumeUrl)>>),
     extend |-> Operation(VolumeParams, <<Call("PUT", VolumeUrl)>>)]
Operations ==
    [apps |-> AppsOperations, machines |-> MachinesOperations, ips |-> IpsOperations,
     secrets |-> SecretsOperations, volumes |-> VolumesOperations]
OpNames == UNION {{<<i, f>> : f \in DOMAIN Operations[i]} : i \in DOMAIN Operations}
OperationOf(name) == Operations[name[1]][name[2]]
ParamNames(name) ==
    {OperationOf(name).params[i].name : i \in DOMAIN OperationOf(name).params}

\* Values a caller passes for an identifier: legal slugs, the empty string, and
\* strings with a slash, an underscore or a non-ASCII letter (one char, written
\* by its code point).
SlugInputs ==
    {<<"m", "y", "-", "a", "p", "p", "1">>, <<"Z", "9">>, <<>>,
     <<"a", "/", "b">>, <<"a", "_">>, <<"z", "U+00E9">>}

\* The parameters the Guest function turns into SafeUrlParts that fail.
IllegalSlugs(name, args) ==
    {i \in DOMAIN OperationOf(name).params :
        /\ OperationOf(name).params[i].safe
        /\ ~SafeUrlPart_new(args[OperationOf(name).params[i].name]).ok}

\* The Guest function: AppName::new(..)?, OrgSlug::new(..)?, ... before block_on.
OpValidate ==
    /\ opPc = "start"
    /\ IF IllegalSlugs(opName, opArgs) = {}
       THEN /\ opPc' = "request"
            /\ UNCHANGED opResult
       ELSE /\ opPc' = "done"
            /\ opResult' = Some(Err("illegal slug"))
    /\ UNCHANGED <<opName, opArgs, opToken, opNext, opSent, notOp>>

\* request_with_api_token()? returns the error: no request is built.
OpTokenMissing ==
    /\ opPc = "request"
    /\ ~request_with_api_token(opToken).ok
    /\ opPc' = "done"
    /\ opResult' = Some(Err(request_with_api_token(opToken).err))
    /\ UNCHANGED <<opName, opArgs, opToken, opNext, opSent, notOp>>

\* The request the operation builds next: the arguments interpolated into the
\* URL with format!, and the header of request_with_api_token.
OpRequest ==
    LET call == OperationOf(opName).calls[opNext]
    IN [method |-> call.method,
        url |-> [k \in DOMAIN call.url |-> opArgs[call.url[k]]],
        headers |-> request_with_api_token(opToken).val]

\* Client::new().send(request), and the operation returns on the response.
OpSendReturn ==
    /\ opPc = "request"
    /\ request_with_api_token(opToken).ok
    /\ opSent' = Append(opSent, OpRequest)
    /\ opPc' = "done"
    /\ \E r \in {Ok("response"), Err("failed with status")} : opResult' = Some(r)
    /\ UNCHANGED <<opName, opArgs, opToken, opNext, notOp>>

\* Client::new().send(request), and the operation goes on to its next request
\* (apps put after 422; ips allocate after the allocation and after the list).
OpSendContinue ==
    /\ opPc = "request"
    /\ request_with_api_token(opToken).ok
    /\ opNext < Len(OperationOf(opName).calls)
    /\ opSent' = Append(opSent, OpRequest)
    /\ opNext' = opNext + 1
    /\ UNCHANGED <<opName, opArgs, opToken, opPc, opResult, notOp>>

OpIdle ==
    /\ opName = <<"apps", "get">>
    /\ opArgs = <<>>
    /\ opToken = None
    /\ opPc = "idle"
    /\ opNext = 1
    /\ opSent = <<>>
    /\ opResult = None

\* An operation is called with the token present or absent.
OpInit ==
    /\ opName \in OpNames
    /\ opArgs \in [ParamNames(opName) -> SlugInputs]
    /\ opToken \in {None, Some("fo1_token")}
    /\ opPc = "start"
    /\ opNext = 1
    /\ opSent = <<>>
    /\ opResult = None

\* ======================================================================
\* Specifications
\* ======================================================================
IpIdle == IpInit({}, {{}}, {<<>>})
\* One configuration, where the requested configuration is not at issue.
OneMachineConfig == {[image |-> "registry/app:1", region |-> None]}
McIdle == McInit({}, {<<"b">>}, OneMachineConfig)
ApIdle == ApInit({}, {{}}, {"personal"})
FnIdle == arg = <<>> /\ ret = None
DkIdle == DkInit({[container |-> "absent", network |-> FALSE, volume |-> FALSE]})
DlIdle == DlInit({{}})
\* A function is applied once to an input drawn from `inputs`.
FnInit(inputs) == arg \in inputs /\ ret = None

\* Sequential retries of one ips allocate activity: one invocation at a time.
InitIpsRetry ==
    /\ IpInit({1}, SUBSET Addr, PreExistingInputs)
    /\ McIdle /\ ApIdle /\ RlIdle /\ OpIdle /\ FnIdle
    /\ DkIdle
    /\ DlIdle

NextIpsRetry ==
    \/ IpAllocateOk(1)
    \/ IpAllocateErr(1)
    \/ IpAllocateUndecodable(1)
    \/ IpListOk(1)
    \/ IpListErr(1)
    \/ IpRelease(1)
    \/ IpReleaseErr(1)
    \/ IpAbort(1)
    \/ IpRetry(1)

SpecIpsRetry == InitIpsRetry /\ [][NextIpsRetry]_vars

\* ips allocate invocations that overlap in time, each run once.
InitIpsConcurrent ==
    /\ IpInit(IpProcs, SUBSET Addr, PreExistingInputs)
    /\ McIdle /\ ApIdle /\ RlIdle /\ OpIdle /\ FnIdle
    /\ DkIdle
    /\ DlIdle

NextIpsConcurrent ==
    \E p \in IpProcs :
        \/ IpAllocateOk(p)
        \/ IpAllocateErr(p)
        \/ IpAllocateUndecodable(p)
        \/ IpListOk(p)
        \/ IpListErr(p)
        \/ IpRelease(p)
        \/ IpReleaseErr(p)

SpecIpsConcurrent == InitIpsConcurrent /\ [][NextIpsConcurrent]_vars

\* One machines create against every response the transport can deliver.
InitMachineCreate ==
    McInit({1}, MachineNames, OneMachineConfig) /\ IpIdle /\ ApIdle /\ RlIdle /\ OpIdle /\ FnIdle
    /\ DkIdle
    /\ DlIdle

NextMachineCreate ==
    \/ McSendAny(1)
    \/ McReturn(1)

SpecMachineCreate == InitMachineCreate /\ [][NextMachineCreate]_vars

\* Overlapping machines create invocations against the unique-key provider.
InitMachineProvider ==
    McInit(McProcs, MachineNames, MachineConfigs) /\ IpIdle /\ ApIdle /\ RlIdle /\ OpIdle /\ FnIdle
    /\ DkIdle
    /\ DlIdle

NextMachineProvider ==
    \E p \in McProcs :
        \/ McSend(p)
        \/ McReturn(p)

SpecMachineProvider == InitMachineProvider /\ [][NextMachineProvider]_vars

\* get_machine_id_on_creation_conflict applied to one message.
InitConflictMessage ==
    FnInit(ErrorInputs) /\ IpIdle /\ McIdle /\ ApIdle /\ RlIdle /\ OpIdle
    /\ DkIdle
    /\ DlIdle

NextConflictMessage == GetMachineId

SpecConflictMessage == InitConflictMessage /\ [][NextConflictMessage]_vars

\* Release calls for one address, one after the other.
InitIpsRelease ==
    IpInit({}, SUBSET Addr, {<<>>}) /\ RlInit /\ McIdle /\ ApIdle /\ OpIdle /\ FnIdle
    /\ DkIdle
    /\ DlIdle

NextIpsRelease ==
    \/ RlRelease
    \/ RlReleaseRefused

SpecIpsRelease == InitIpsRelease /\ [][NextIpsRelease]_vars

\* One operation of the component, from the Guest function to its return.
InitOperation == OpInit /\ IpIdle /\ McIdle /\ ApIdle /\ RlIdle /\ FnIdle
    /\ DkIdle
    /\ DlIdle

NextOperation ==
    \/ OpValidate
    \/ OpTokenMissing
    \/ OpSendReturn
    \/ OpSendContinue

SpecOperation == InitOperation /\ [][NextOperation]_vars

\* The regions of one list response are deserialized.
InitListRegions ==
    FnInit(ListIpsInputs) /\ IpIdle /\ McIdle /\ ApIdle /\ RlIdle /\ OpIdle
    /\ DkIdle
    /\ DlIdle

NextListRegions == ListIpsDecode

SpecListRegions == InitListRegions /\ [][NextListRegions]_vars

\* Operations of the docker component on one name, one after the other.
InitDocker ==
    DkInit(Daemons) /\ IpIdle /\ McIdle /\ ApIdle /\ RlIdle /\ OpIdle /\ FnIdle
    /\ DlIdle

NextDocker ==
    \/ ContainersRun
    \/ ContainersStart
    \/ ContainersStop
    \/ ContainersRm
    \/ NetworksCreate
    \/ NetworksRm
    \/ VolumesCreate
    \/ VolumesRm

SpecDocker == InitDocker /\ [][NextDocker]_vars

\* Delete calls of the Fly component, one after the other.
InitDeletes ==
    DlInit(SUBSET DeleteOps) /\ IpIdle /\ McIdle /\ ApIdle /\ RlIdle /\ OpIdle /\ FnIdle
    /\ DkIdle

NextDeletes ==
    \/ AppsDelete
    \/ MachinesDelete
    \/ VolumesDelete
    \/ SecretsDelete

SpecDeletes == InitDeletes /\ [][NextDeletes]_vars

\* machines update applied to one answer.
InitMachineUpdate ==
    FnInit(UpdateInputs) /\ IpIdle /\ McIdle /\ ApIdle /\ RlIdle /\ OpIdle /\ DkIdle
    /\ DlIdle

NextMachineUpdate == MachinesUpdate

SpecMachineUpdate == InitMachineUpdate /\ [][NextMachineUpdate]_vars

\* list_ips applied to one decoded entry.
InitListClassify ==
    FnInit(FlyIpDetails) /\ IpIdle /\ McIdle /\ ApIdle /\ RlIdle /\ OpIdle
    /\ DkIdle
    /\ DlIdle

NextListClassify == ListIpsClassify

SpecListClassify == InitListClassify /\ [][NextListClassify]_vars

\* check_exists applied to one run of `docker inspect`.
InitCheckExists ==
    FnInit(DockerRuns) /\ IpIdle /\ McIdle /\ ApIdle /\ RlIdle /\ OpIdle
    /\ DkIdle
    /\ DlIdle

NextCheckExists == CheckExists

SpecCheckExists == InitCheckExists /\ [][NextCheckExists]_vars

\* Overlapping apps put invocations for one app name.
InitAppsPut == ApInit(ApProcs, AppDbInputs, Orgs) /\ IpIdle /\ McIdle /\ RlIdle /\ OpIdle /\ FnIdle
    /\ DkIdle
    /\ DlIdle

NextAppsPut ==
    \E p \in ApProcs :
        \/ ApCreate(p)
        \/ ApCreateFails(p)
        \/ ApProbe(p)
        \/ ApProbeFails(p)

SpecAppsPut == InitAppsPut /\ [][NextAppsPut]_vars

\* ======================================================================
\* Claims
\* ======================================================================
IpListed(p) == ipPost[p] # None
IpReturned(p) == ipPc[p] \in {"done", "failed"}
IpExpected(p) == expected(pre_existing, ipAllocated[p][1])
\* The allocation returned c and the list returned a superset of pre_existing + c.
IpListCoversExpected(p) == IpListed(p) /\ IpExpected(p) \subseteq ipPost[p][1]
IpLeaked(p) == ipPost[p][1] \ IpExpected(p)
IpReleaseFailed(p) ==
    /\ ipPc[p] = "failed"
    /\ ipResult[p] = Some(Err(StatusError(500, "release")))

\* C1 (as stated): when the allocation returned c and the list returned
\* post_existing containing pre_existing + c, the invocation that has returned
\* issued exactly one release for each address of post_existing \ expected, none
\* for any other address, and returned c when every release succeeded.
C1_ExactlyOneReleasePerLeak ==
    \A p \in IpProcs :
        (IpListCoversExpected(p) /\ IpReturned(p)) =>
            /\ \A a \in IpLeaked(p) : ipReleases[p][a] = 1
            /\ \A a \in Addr \ IpLeaked(p) : ipReleases[p][a] = 0
            /\ ~IpReleaseFailed(p) => ipResult[p] = Some(Ok(ipAllocated[p][1]))

\* C1 (amended): under the same precondition the invocation issues at most one
\* release for each address of post_existing \ expected and none for any other
\* address; it issues exactly one for each and returns c when every release
\* succeeds, and otherwise returns the error of the release that failed.
C1_ReleasesOnlyLeaks ==
    \A p \in IpProcs :
        IpListCoversExpected(p) =>
            /\ \A a \in IpLeaked(p) : ipReleases[p][a] <= 1
            /\ \A a \in Addr \ IpLeaked(p) : ipReleases[p][a] = 0
            /\ ipPc[p] = "done" =>
                /\ \A a \in IpLeaked(p) : ipReleases[p][a] = 1
                /\ ipResult[p] = Some(Ok(ipAllocated[p][1]))
            /\ ipPc[p] = "failed" => IpReleaseFailed(p)

\* pre_existing is not empty, one leaked address was listed and released, c returned.
C1_Witness ==
    \E p \in IpProcs :
        /\ IpListCoversExpected(p)
        /\ ipPc[p] = "done"
        /\ pre_existing # <<>>
        /\ IpLeaked(p) # {}
        /\ \A a \in IpLeaked(p) : ipReleases[p][a] = 1

\* C2: starting with the remote set equal to pre_existing, whenever the latest
\* invocation of a retry sequence has returned c, the remote set is exactly
\* pre_existing + c, and c is not one of pre_existing.
C2_RetriesHealLeaks ==
    (ipRemote0 = ToSet(pre_existing) /\ ipPc[1] = "done") =>
        /\ ipResult[1][1].ok
        /\ ipResult[1][1].val \notin ToSet(pre_existing)
        /\ ipRemote = ToSet(pre_existing) \cup {ipResult[1][1].val}

\* A retry returned after releasing the address an earlier attempt leaked.
C2_Witness ==
    /\ ipRemote0 = ToSet(pre_existing)
    /\ pre_existing # <<>>
    /\ ipAttempt >= 2
    /\ ipPc[1] = "done"
    /\ \E a \in Addr : ipReleases[1][a] = 1

\* C3: once invocations that overlapped in time, all given the pre_existing that
\* was the remote set when they began, have all returned successfully, the
\* address each of them returned is still allocated to the app.
C3_ReturnedAddressStaysAllocated ==
    (/\ ipRemote0 = ToSet(pre_existing)
     /\ ipOverlap
     /\ \A p \in IpProcs : ipPc[p] = "done") =>
        \A p \in IpProcs : ipResult[p][1].val \in ipRemote

\* C4: whenever an invocation has returned an error, the remote set is what it
\* was when the invocation began.
C4_FailsAtomically ==
    \A p \in IpProcs : ipPc[p] = "failed" => ipRemote = ipBefore[p]

McAnswered(p) == mcResponse[p] # None /\ mcResponse[p][1].answered

\* C5: a create that has returned issued exactly one HTTP request; when the POST
\* was answered success with a body carrying an id it returned that id, and when
\* it was answered 409 with the conflict message (prefix, id, suffix, rest) it
\* returned the id embedded in the message, verbatim.
C5_CreateReturnsIdInOneRequest ==
    \A p \in McProcs :
        mcPc[p] = "done" =>
            LET r == mcResponse[p][1]
            IN /\ mcRequests[p] = 1
               /\ (r.answered /\ is_success(r.status) /\ "id" \in DOMAIN r.body) =>
                    mcResult[p] = Some(Ok(r.body.id))
               /\ \A id \in MachineIds, tail \in {<<>>} \cup {Quoted(n) : n \in MachineNames} :
                    (/\ r.answered
                     /\ r.status = CONFLICT
                     /\ r.body = [error |-> PREFIX \o id \o SUFFIX \o tail]) =>
                        mcResult[p] = Some(Ok(id))

\* A create answered 409 with the provider's conflict message has returned an id.
C5_Witness ==
    \E p \in McProcs :
        /\ mcPc[p] = "done"
        /\ McAnswered(p)
        /\ mcResponse[p][1].status = CONFLICT
        /\ \E id \in MachineIds :
            /\ mcResponse[p][1].body = [error |-> ConflictMessage(id, mcName[p])]
            /\ mcResult[p] = Some(Ok(id))

\* C6: against the unique-key provider, all create invocations for one machine
\* name that have returned have returned the same machine id, successfully, and
\* exactly one machine with that name exists, the one with that id.
C6_CreateConvergesOnOneMachine ==
    \A p \in McProcs :
        mcPc[p] = "done" =>
            /\ mcResult[p][1].ok
            /\ {m \in mcDb : m.name = mcName[p]}
                 = {[name |-> mcName[p], id |-> mcResult[p][1].val]}
            /\ \A q \in McProcs :
                (mcPc[q] = "done" /\ mcName[q] = mcName[p]) => mcResult[q] = mcResult[p]

\* Every invocation asked for the same name, their POSTs overlapped, all returned.
C6_Witness ==
    /\ \A p \in McProcs : mcPc[p] = "done" /\ mcName[p] = mcName[1]
    /\ \E p \in McProcs : mcResponse[p][1].status = 200
    /\ \E p \in McProcs : mcResponse[p][1].status = CONFLICT

ApCreateStatus(p, status) ==
    /\ apCreate[p] # None
    /\ apCreate[p][1].answered
    /\ apCreate[p][1].status = status
ApCreateSucceeded(p) ==
    /\ apCreate[p] # None
    /\ apCreate[p][1].answered
    /\ is_success(apCreate[p][1].status)
ApProbeAnswered(p) == apProbe[p] # None /\ apProbe[p][1].answered
\* The probe answered success with an app and its organization slug.
ApProbeFound(p) ==
    /\ ApProbeAnswered(p)
    /\ is_success(apProbe[p][1].status)
    /\ AppDetails(apProbe[p][1].body) # None
ApProbedSlug(p) == apProbe[p][1].body.organization.slug

\* C7: when create answered 422 and the probe answered success with an app of
\* the requested organization, put returned the id and name of the probed app;
\* and a put that returns an app after another put created it returns the id
\* the creating put returned.
C7_PutReturnsProbedApp ==
    /\ \A p \in ApProcs :
        (/\ apPc[p] = "done"
         /\ ApCreateStatus(p, UNPROCESSABLE_ENTITY)
         /\ ApProbeFound(p)
         /\ ApProbedSlug(p) = apOrg[p]) =>
            apResult[p] = Some(Ok([id |-> apProbe[p][1].body.id,
                                   name |-> apProbe[p][1].body.name]))
    /\ \A p, q \in ApProcs :
        (/\ apPc[p] = "done" /\ ApCreateSucceeded(p) /\ apResult[p][1].ok
         /\ apPc[q] = "done" /\ apResult[q][1].ok) =>
            apResult[q][1].val.id = apResult[p][1].val.id

\* One put created the app, another got 422, probed it and returned it.
C7_Witness ==
    \E p, q \in ApProcs :
        /\ apPc[p] = "done" /\ ApCreateSucceeded(p) /\ apResult[p][1].ok
        /\ apPc[q] = "done" /\ ApCreateStatus(q, UNPROCESSABLE_ENTITY)
        /\ ApProbeFound(q)
        /\ apResult[q] = Some(Ok([id |-> apResult[p][1].val.id, name |-> AppNameInput]))

\* C8: put returned an app only if its create call succeeded or its probe found
\* an app of the requested organization; when create answered 422 and the probed
\* app belongs to another organization, put returned the error naming the actual
\* and the requested slug, and its calls changed nothing at the provider.
C8_PutRejectsOtherOrg ==
    \A p \in ApProcs :
        apPc[p] = "done" =>
            /\ apResult[p][1].ok =>
                \/ ApCreateSucceeded(p)
                \/ ApProbeFound(p) /\ ApProbedSlug(p) = apOrg[p]
            /\ (/\ ApCreateStatus(p, UNPROCESSABLE_ENTITY)
                /\ ApProbeFound(p)
                /\ ApProbedSlug(p) # apOrg[p]) =>
                    /\ apResult[p] = Some(Err(OrgMismatch(AppNameInput, ApProbedSlug(p),
                                                          apOrg[p])))
                    /\ apWrites[p] = 0

\* A put found the name taken by another organization and failed.
C8_Witness ==
    \E p \in ApProcs :
        /\ apPc[p] = "done"
        /\ ApCreateStatus(p, UNPROCESSABLE_ENTITY)
        /\ ApProbeFound(p)
        /\ ApProbedSlug(p) # apOrg[p]
        /\ ~apResult[p][1].ok

\* C9: when create answered 422 and the probe answered a non-success status, put
\* failed with status 422 and the body of the create response.
C9_ProbeFailureKeepsCreateFailure ==
    \A p \in ApProcs :
        (/\ apPc[p] = "done"
         /\ ApCreateStatus(p, UNPROCESSABLE_ENTITY)
         /\ ApProbeAnswered(p)
         /\ ~is_success(apProbe[p][1].status)) =>
            /\ apResult[p] = Some(Err(StatusError(UNPROCESSABLE_ENTITY, apCreate[p][1].body)))
            /\ apResult[p][1].err.body # apProbe[p][1].body

\* The probe answered 404, and another one 500, after a 422.
C9_Witness ==
    \E p \in ApProcs :
        /\ apPc[p] = "done"
        /\ ApCreateStatus(p, UNPROCESSABLE_ENTITY)
        /\ ApProbeAnswered(p)
        /\ apProbe[p][1].status \in {NOT_FOUND, 500}
        /\ ~apResult[p][1].ok

\* C10: when create answered a non-success status other than 422, put failed
\* with that status and body and sent no probe; an invocation sends one create
\* POST, at most one probe GET, and a probe only after a 422.
C10_OneCreateAtMostOneProbe ==
    \A p \in ApProcs :
        /\ apPosts[p] = (IF apPc[p] = "start" THEN 0 ELSE 1)
        /\ apGets[p] <= 1
        /\ apGets[p] = 1 => ApCreateStatus(p, UNPROCESSABLE_ENTITY)
        /\ apPc[p] = "probe" => ApCreateStatus(p, UNPROCESSABLE_ENTITY)
        /\ (/\ apCreate[p] # None
            /\ apCreate[p][1].answered
            /\ ~is_success(apCreate[p][1].status)
            /\ apCreate[p][1].status # UNPROCESSABLE_ENTITY) =>
                /\ apPc[p] = "done"
                /\ apGets[p] = 0
                /\ apResult[p] = Some(Err(StatusError(apCreate[p][1].status,
                                                      apCreate[p][1].body)))

\* A create answered 500 failed without a probe; another put probed after a 422.
C10_Witness ==
    \E p, q \in ApProcs :
        /\ apPc[p] = "done" /\ ApCreateStatus(p, 500) /\ apGets[p] = 0
        /\ apPc[q] = "done" /\ ApCreateStatus(q, UNPROCESSABLE_ENTITY) /\ apGets[q] = 1

\* The probe GET of p was answered by the provider from the apps it holds now.
ApProbeAnsweredByProvider(p) ==
    /\ apProbe[p] # None
    /\ apProbe[p][1] \in ProviderGetApp(apDb, AppNameInput)

\* Two puts of one organization: the provider created the app for the POST of p
\* and answered 422 to the POST of q, whose probe it then answered.
ApOneCreatedOtherProbed(p, q) ==
    /\ p # q
    /\ apOrg[p] = apOrg[q]
    /\ apPc[p] = "done" /\ ApCreateSucceeded(p)
    /\ apPc[q] = "done" /\ ApCreateStatus(q, UNPROCESSABLE_ENTITY)
    /\ ApProbeAnsweredByProvider(q)

\* C11: two overlapping puts for the same app name and the same organization,
\* the provider creating the app for one POST and answering 422 to the other
\* (the model has no deletion of the app), both return success with the same
\* app id.
C11_ConcurrentPutsConverge ==
    \A p, q \in ApProcs :
        ApOneCreatedOtherProbed(p, q) =>
            /\ apResult[p][1].ok
            /\ apResult[q][1].ok
            /\ apResult[p][1].val.id = apResult[q][1].val.id

\* Both puts of one organization returned, one after 201 and one after 422.
C11_Witness ==
    \E p, q \in ApProcs :
        /\ ApOneCreatedOtherProbed(p, q)
        /\ apGets[p] = 0 /\ apGets[q] = 1
        /\ apResult[q][1].ok

\* The message starts with the prefix.
StartsWithPrefix(m) ==
    Len(m) >= Len(PREFIX) /\ \A i \in 1..Len(PREFIX) : m[i] = PREFIX[i]
\* The suffix occurs in the message at or after the end of the prefix.
SuffixAfterPrefix(m) ==
    \E i \in Len(PREFIX)..(Len(m) - Len(SUFFIX)) :
        \A j \in 1..Len(SUFFIX) : m[i + j] = SUFFIX[j]
\* The suffix occurs in x \o SUFFIX before the end of x.
HoldsSuffixEarly(x) ==
    \E i \in 0..(Len(x) - 1) :
        \A j \in 1..Len(SUFFIX) : (x \o SUFFIX)[i + j] = SUFFIX[j]
\* Texts between the anchors, and texts after the suffix.
ExtractIds == MachineIds \cup {<<>>} \cup IdsHoldingSuffix
ExtractTails ==
    {<<>>} \cup {Quoted(n) : n \in MachineNames} \cup {Quoted(<<"b">>) \o SUFFIX}
\* None for every message that does not start with the prefix or lacks the
\* suffix after it.
ExtractsNoneWithoutAnchors ==
    ret # None =>
        /\ ~StartsWithPrefix(arg) => ret[1] = None
        /\ ~SuffixAfterPrefix(arg) => ret[1] = None

\* C12 as stated: prefix, X, suffix, any text gives exactly X whatever X is;
\* no prefix at offset 0, or no suffix after the prefix, gives none.
C12_ExtractsExactlyX ==
    ret # None =>
        /\ \A x \in ExtractIds, tail \in ExtractTails :
            arg = PREFIX \o x \o SUFFIX \o tail => ret[1] = Some(x)
        /\ ExtractsNoneWithoutAnchors

\* C12: prefix, X, suffix, any text gives the text up to the first occurrence
\* of the suffix after the prefix: exactly X when the suffix does not occur in
\* X followed by the suffix before the end of X, a proper prefix of X
\* otherwise; no prefix at offset 0, or no suffix after the prefix, gives none.
C12_ExtractsUpToFirstSuffix ==
    ret # None =>
        /\ \A x \in ExtractIds, tail \in ExtractTails :
            arg = PREFIX \o x \o SUFFIX \o tail =>
                /\ ret[1] # None
                /\ ~HoldsSuffixEarly(x) => ret[1][1] = x
                /\ HoldsSuffixEarly(x) =>
                    /\ Len(ret[1][1]) < Len(x)
                    /\ ret[1][1] = SubSeq(x, 1, Len(ret[1][1]))
                    /\ ~HoldsSuffixEarly(ret[1][1])
        /\ ExtractsNoneWithoutAnchors

\* The id was extracted from the provider's message as the test quotes it.
C12_Witness ==
    /\ ret # None
    /\ \E x \in MachineIds :
        /\ arg = PREFIX \o x \o SUFFIX \o Quoted(<<"f", "o", "o">>)
        /\ ret[1] = Some(x)

\* The 409 body is a JSON error object whose message matches the conflict pattern.
McConflictRecognised(r) ==
    /\ r.status = CONFLICT
    /\ "error" \in DOMAIN r.body
    /\ StartsWithPrefix(r.body.error)
    /\ SuffixAfterPrefix(r.body.error)

\* C13: create returned an id only after a success status with an id in the
\* body or after a 409 whose message matches the conflict pattern; after a 409
\* whose body is no JSON error object or whose message does not match it
\* returned an error; after every other non-success status it returned the
\* error holding the status code and the raw body.
C13_NoIdFromUnrecognisedFailure ==
    \A p \in McProcs :
        (mcPc[p] = "done" /\ McAnswered(p)) =>
            LET r == mcResponse[p][1]
                result == mcResult[p][1]
            IN /\ result.ok =>
                    \/ is_success(r.status) /\ "id" \in DOMAIN r.body
                    \/ McConflictRecognised(r)
               /\ (r.status = CONFLICT /\ ~McConflictRecognised(r)) =>
                    /\ ~result.ok
                    /\ result.err.kind \in {"cannot parse error response",
                                            "machine id cannot be parsed from 409 error response"}
               /\ (~is_success(r.status) /\ r.status # CONFLICT) =>
                    result = Err([kind |-> "status", status |-> r.status, body |-> r.body])

\* A status other than 409 carried the provider's conflict message and create
\* returned the status error.
C13_Witness ==
    \E p \in McProcs :
        /\ mcPc[p] = "done" /\ McAnswered(p)
        /\ mcResponse[p][1].status = UNPROCESSABLE_ENTITY
        /\ "error" \in DOMAIN mcResponse[p][1].body
        /\ StartsWithPrefix(mcResponse[p][1].body.error)
        /\ ~mcResult[p][1].ok

\* C14: a release call returned success when the DELETE was answered 2xx or
\* 404 and the error holding status and body for every other status; release
\* calls for one address that the provider answered one after the other all
\* returned success, and the address is not allocated after them.
C14_ReleaseIsIdempotent ==
    /\ \A k \in DOMAIN rlCalls :
        LET c == rlCalls[k]
        IN /\ (is_success(c.status) \/ c.status = NOT_FOUND) => c.result = [ok |-> TRUE]
           /\ ~(is_success(c.status) \/ c.status = NOT_FOUND) =>
                c.result = [ok |-> FALSE, err |-> StatusError(c.status, c.body)]
           /\ c.by = "provider" => c.result.ok
    /\ (rlCalls # <<>> /\ rlCalls[Len(rlCalls)].by = "provider") => rlIp \notin ipRemote

\* An allocated address was released twice in a row: 2xx, then 404, both Ok.
C14_Witness ==
    \E k \in DOMAIN rlCalls :
        /\ k + 1 \in DOMAIN rlCalls
        /\ rlCalls[k].by = "provider" /\ is_success(rlCalls[k].status)
        /\ rlCalls[k + 1].by = "provider" /\ rlCalls[k + 1].status = NOT_FOUND
        /\ rlCalls[k].result.ok /\ rlCalls[k + 1].result.ok

\* C15: the calls of one ips allocate invocation are, in order, one allocation
\* call, then the list call, then release calls, each issued only after the
\* call before it returned success: nothing follows a failed allocation, no
\* release follows a failed list, and an invocation that has returned made its
\* allocation call.
C15_CallsStrictlyOrdered ==
    \A p \in IpProcs :
        /\ \A k \in DOMAIN ipCalls[p] :
            /\ ipCalls[p][k].call = "allocate" <=> k = 1
            /\ ipCalls[p][k].call = "list" <=> k = 2
            /\ ipCalls[p][k].call = "release" <=> k >= 3
            /\ k > 1 => ipCalls[p][k - 1].ok
        /\ ipPc[p] = "start" <=> (ipCalls[p] = <<>> /\ ipPc[p] # "idle")
        /\ ipPc[p] = "done" => \A k \in DOMAIN ipCalls[p] : ipCalls[p][k].ok

\* An invocation allocated, listed, released two leaked addresses and returned.
C15_Witness ==
    /\ ipPc[1] = "done"
    /\ Len(ipCalls[1]) = 4
    /\ \E a \in Addr : ipReleases[1][a] = 1 /\ a \in IpLeaked(1)

\* Every identifier argument of the operation is a legal slug.
OpArgsLegal == \A n \in DOMAIN opArgs : SafeUrlPart_new(opArgs[n]).ok
OpConfigurationError == Some(Err("cannot obtain FLY_API_TOKEN"))

\* C16 as stated: with FLY_API_TOKEN absent an operation sends nothing and
\* returns the configuration error.
C16_NoTokenConfigurationError ==
    opToken = None =>
        /\ opSent = <<>>
        /\ opPc = "done" => opResult = OpConfigurationError

\* C16: with FLY_API_TOKEN absent an operation sends nothing and fails; it
\* returns the configuration error unless one of the identifiers its Guest
\* function validates is illegal, and then the illegal-slug error.
C16_NoTokenNoRequest ==
    opToken = None =>
        /\ opSent = <<>>
        /\ opPc = "done" =>
            /\ IllegalSlugs(opName, opArgs) = {} => opResult = OpConfigurationError
            /\ IllegalSlugs(opName, opArgs) # {} => opResult = Some(Err("illegal slug"))

\* apps put with legal arguments and no token returned the configuration error.
C16_Witness ==
    /\ opToken = None
    /\ opName = <<"apps", "put">>
    /\ OpArgsLegal
    /\ opPc = "done"
    /\ opResult = OpConfigurationError
    /\ opSent = <<>>

\* The identifier parameters: app name, org slug, secret key, volume id and
\* machine id.
IdentifierParams == {"app_name", "org_slug", "secret_name", "volume_id", "machine_id"}
\* An identifier argument of the operation holds a character that is no ASCII
\* letter, ASCII digit or hyphen.
OpIllegalIdentifier ==
    \E n \in DOMAIN opArgs \cap IdentifierParams : ~SafeUrlPart_new(opArgs[n]).ok

\* C17: an operation given an identifier with a character other than an ASCII
\* letter, an ASCII digit or a hyphen sends no request and returns the
\* illegal-slug error, whichever interface it belongs to.
C17_IllegalIdentifierNeverSent ==
    (opPc # "idle" /\ OpIllegalIdentifier) =>
        /\ opSent = <<>>
        /\ opPc = "done" /\ opToken # None => opResult = Some(Err("illegal slug"))

\* The value is "global" written in some letter case.
IsGlobalValue(value) == value.json = "string" /\ value.str \in CaseVariants(GLOBAL)
\* The value is the name of a region written in some letter case.
IsRegionValue(value) ==
    value.json = "string" /\ \E r \in RegionNames : value.str \in CaseVariants(r)
\* The region name the value is a way of writing.
RegionOfValue(value) == CHOOSE r \in RegionNames : value.str \in CaseVariants(r)

\* C18: the list response is decoded exactly when every region value is null,
\* "global" in some letter case or a region name in some letter case; null and
\* "global" give no region and a region name gives that region; any other
\* value fails the whole response.
C18_GlobalRegionIsNone ==
    ret # None =>
        LET fits == \A i \in DOMAIN arg :
                        arg[i] = JsonNull \/ IsGlobalValue(arg[i]) \/ IsRegionValue(arg[i])
        IN /\ ret[1].ok <=> fits
           /\ fits =>
                \A i \in DOMAIN arg :
                    /\ arg[i] = JsonNull => ret[1].val[i] = None
                    /\ IsGlobalValue(arg[i]) => ret[1].val[i] = None
                    /\ IsRegionValue(arg[i]) => ret[1].val[i] = Some(RegionOfValue(arg[i]))

\* "GLOBAL" next to a region in mixed case was decoded to no region and the region.
C18_Witness ==
    /\ ret # None
    /\ arg = <<JsonString(<<"G", "L", "O", "B", "A", "L">>), JsonString(<<"A", "m", "s">>)>>
    /\ ret[1] = Ok(<<None, Some(<<"a", "m", "s">>)>>)

\* The text has "No such" in it.
MentionsNoSuch(text) ==
    \E i \in 1..(Len(text) - 1) : text[i] = "No" /\ text[i + 1] = "such"
\* The command was spawned with both pipes and waiting for it gave `status`.
RanToExit(run, status) ==
    /\ run.spawn = None /\ run.take_stdout /\ run.take_stderr
    /\ run.wait.ok /\ run.wait.val = status
StreamsRead(run) == run.stdout.ok /\ run.stderr.ok
\* check_exists returned Ok(false) if the text has "No such", Err if not.
AbsentIfNoSuch(text) ==
    IF MentionsNoSuch(text) THEN ret[1] = Ok(FALSE) ELSE ~ret[1].ok
\* The command exited, not with code 0, and its streams were read.
ExitedNonZero(run) ==
    \E status \in ExitStatuses \ {Some(0)} : RanToExit(run, status) /\ StreamsRead(run)

McExisting(p) == {m \in mcDb : m.name = mcName[p]}
\* The invocation whose POST created the machine with this id.
McCreator(id) ==
    {q \in McProcs : /\ McAnswered(q)
                     /\ is_success(mcResponse[q][1].status)
                     /\ mcResponse[q][1].body.id = id}

\* C20: a create answered 409 returned the id of the existing machine of that
\* name after one request, the POST, whatever configuration and region it
\* asked for; invocations given the same response returned the same result;
\* and every machine keeps the configuration of the invocation that created it.
C20_ConflictIgnoresConfiguration ==
    /\ \A p \in McProcs :
        (mcPc[p] = "done" /\ McAnswered(p) /\ mcResponse[p][1].status = CONFLICT) =>
            /\ mcRequests[p] = 1
            /\ \E m \in McExisting(p) : mcResult[p] = Some(Ok(m.id))
            /\ \A q \in McProcs :
                (mcPc[q] = "done" /\ mcResponse[q] = mcResponse[p]) =>
                    mcResult[q] = mcResult[p]
    /\ \A m \in mcStored : \A q \in McCreator(m.id) : m.config = mcRequested[q]
    /\ \A m \in mcDb : \E c \in mcStored : c.id = m.id

\* A create asking for another configuration than the existing machine has was
\* answered 409 and returned the existing machine's id; the machine kept its own.
C20_Witness ==
    \E p \in McProcs : \E m \in mcStored :
        /\ mcPc[p] = "done" /\ McAnswered(p) /\ mcResponse[p][1].status = CONFLICT
        /\ mcResult[p] = Some(Ok(m.id))
        /\ m.config # mcRequested[p]

\* The probe failed in transport, or answered success with a body that is not
\* an app with an organization slug.
ApProbeBroken(p) ==
    /\ apProbe[p] # None
    /\ \/ ~apProbe[p][1].answered
       \/ /\ is_success(apProbe[p][1].status)
          /\ AppDetails(apProbe[p][1].body) = None

\* C21: when create answered 422 and the probe failed in transport, or
\* answered success with a body that cannot be decoded, put failed with
\* status 422 and the body of the create response.
C21_BrokenProbeKeepsCreateFailure ==
    \A p \in ApProcs :
        (/\ apPc[p] = "done"
         /\ ApCreateStatus(p, UNPROCESSABLE_ENTITY)
         /\ ApProbeBroken(p)) =>
            apResult[p] = Some(Err(StatusError(UNPROCESSABLE_ENTITY, apCreate[p][1].body)))

\* The POST was answered 409 with a JSON error body whose message does not
\* yield a machine id.
McConflictUnmatched(p) ==
    /\ McAnswered(p)
    /\ mcResponse[p][1].status = CONFLICT
    /\ ResponseErrorSer(mcResponse[p][1].body) # None
    /\ get_machine_id_on_creation_conflict(mcResponse[p][1].body.error) = None

\* C22: when create was answered 409 with a JSON error body from which no
\* machine id can be extracted, the error string it returned is formatted with
\* the error response.
C22_UnmatchedConflictEmbedsResponse ==
    \A p \in McProcs :
        (mcPc[p] = "done" /\ McConflictUnmatched(p)) =>
            /\ ~mcResult[p][1].ok
            /\ \E i \in DOMAIN create_err_to_string(mcResult[p][1].err).args :
                create_err_to_string(mcResult[p][1].err).args[i] = mcResponse[p][1].body

HasColon(ip) == \E i \in DOMAIN ip : ip[i] = ":"
BeginsWithFdaa(ip) ==
    Len(ip) >= 4 /\ ip[1] = "f" /\ ip[2] = "d" /\ ip[3] = "a" /\ ip[4] = "a"

\* C23: the detail of an entry keeps its address; an address with a colon is
\* IPv6, private without a region when it begins with fdaa and public with the
\* entry's region otherwise; an address without a colon is IPv4 with the
\* entry's shared flag, false when absent, and the entry's region.
C23_ClassifiedByAddressText ==
    ret # None =>
        /\ ret[1].ip = arg.ip
        /\ (HasColon(arg.ip) /\ BeginsWithFdaa(arg.ip)) =>
                ret[1].ip_variant = [variant |-> "ipv6-private"]
        /\ (HasColon(arg.ip) /\ ~BeginsWithFdaa(arg.ip)) =>
                ret[1].ip_variant = [variant |-> "ipv6", region |-> arg.region]
        /\ ~HasColon(arg.ip) =>
                ret[1].ip_variant =
                    [variant |-> "ipv4", shared |-> (arg.shared = Some(TRUE)),
                     region |-> arg.region]

\* An entry whose address begins with fdaa and holds a colon, and that has a
\* region, was classified private and lost its region.
C23_Witness ==
    /\ ret # None
    /\ HasColon(arg.ip) /\ BeginsWithFdaa(arg.ip)
    /\ arg.region # None
    /\ ret[1].ip_variant = [variant |-> "ipv6-private"]

DkLast(op) == dkOp # None /\ dkOp[1].op = op
\* The text holds the word Conflict, or the words is already in use in a row.
MentionsConflict(text) ==
    \/ \E i \in DOMAIN text : text[i] = "Conflict"
    \/ \E i \in 1..(Len(text) - 3) :
        /\ text[i] = "is" /\ text[i + 1] = "already"
        /\ text[i + 2] = "in" /\ text[i + 3] = "use"
\* `docker run` failed with a conflict and the inspect that followed returned
\* a container.
DkRunConflict ==
    /\ DkLast("containers run")
    /\ ~dkCmds[1].res.ok
    /\ MentionsConflict(dkCmds[1].res.err)
DkInspected == inspect_container(dkCmds[2].res)
DkInspectFound == DkInspected.ok /\ DkInspected.val # None

\* C24: when `docker run` failed with a conflict, run inspected the container
\* by name; it returned the inspected container's id exactly when that state
\* is running, failed with the error naming the state when inspect returned a
\* container in another state, and returned the error of `docker run` when
\* inspect returned no container; when `docker run` failed without a conflict
\* it returned that error and ran no inspect.
C24_RunRecoversRunningContainer ==
    (DkLast("containers run") /\ ~dkCmds[1].res.ok) =>
        IF DkRunConflict
        THEN /\ Len(dkCmds) = 2
             /\ dkCmds[2].args = <<"inspect", DockerName>>
             /\ dkResult[1].ok <=> (DkInspectFound /\ DkInspected.val[1].state = "running")
             /\ dkResult[1].ok => dkResult[1].val = DkInspected.val[1].id
             /\ (DkInspectFound /\ DkInspected.val[1].state # "running") =>
                    dkResult[1] = Err(ExistsInState(DkInspected.val[1].state))
             /\ (DkInspected.ok /\ DkInspected.val = None) =>
                    dkResult[1] = Err(dkCmds[1].res.err)
        ELSE /\ Len(dkCmds) = 1
             /\ dkResult[1] = Err(dkCmds[1].res.err)

\* `docker run` failed with a conflict, the container of that name is running,
\* and run returned its id.
C24_Witness ==
    /\ DkRunConflict
    /\ dkBefore.container = "running"
    /\ dkResult = Some(Ok(ContainerId))

\* The removal operations with the kind of resource each one checks.
DkRemovals ==
    {<<"containers stop", "container">>, <<"containers rm", "container">>,
     <<"networks rm", "network">>, <<"volumes rm", "volume">>}

\* C25: a stop or rm operation first checks that the resource exists; when the
\* check reports that it does not, the operation returns success and runs no
\* other command; repeated right after it succeeded, it succeeds again unless
\* the check itself fails; and start returns success after the inspect alone
\* when the container is running.
C25_RemovalsAreIdempotent ==
    /\ \A x \in DkRemovals :
        DkLast(x[1]) =>
            /\ dkCmds[1].args = <<"inspect", "--type", x[2], DockerName>>
            /\ dkCmds[1].res = Ok(FALSE) => (dkResult[1] = Ok(Unit) /\ Len(dkCmds) = 1)
            /\ (/\ dkPrev # None
                /\ dkPrev[1].op = x[1]
                /\ dkPrev[1].result.ok
                /\ dkCmds[1].res.ok) => dkResult[1] = Ok(Unit)
    /\ (/\ DkLast("containers start")
        /\ dkBefore.container = "running"
        /\ dkCmds[1].res.ok) => (dkResult[1] = Ok(Unit) /\ Len(dkCmds) = 1)

\* A container was removed by rm with one `docker rm`, and the rm repeated
\* after it found no container and returned success.
C25_Witness ==
    /\ dkPrev # None
    /\ dkPrev[1].op = "containers rm" /\ dkPrev[1].result.ok
    /\ DkLast("containers rm")
    /\ dkCmds = <<[args |-> <<"inspect", "--type", "container", DockerName>>,
                   res |-> Ok(FALSE)]>>
    /\ dkResult = Some(Ok(Unit))

\* The operation checked that the resource exists, and ran the create command
\* only when the check reported that it does not.
DkCreateChecked(type) ==
    /\ dkCmds[1].args = <<"inspect", "--type", type, DockerName>>
    /\ dkCmds[1].res = Ok(TRUE) => Len(dkCmds) = 1
    /\ dkCmds[1].res = Ok(FALSE) =>
        (Len(dkCmds) = 2 /\ dkCmds[2].args = <<type, "create", DockerName>>)

\* C30: networks create returned the given name when the check reported that
\* the network exists and the output of `docker network create` when it
\* created it; volumes create returned the given name in both cases; neither
\* ran a create command after the check reported that the resource exists.
C30_CreateReturnsNameOrOutput ==
    /\ DkLast("networks create") =>
        /\ DkCreateChecked("network")
        /\ dkCmds[1].res = Ok(TRUE) => dkResult[1] = Ok(<<DockerName>>)
        /\ (Len(dkCmds) = 2 /\ dkCmds[2].res.ok) => dkResult[1] = Ok(dkCmds[2].res.val)
    /\ DkLast("volumes create") =>
        /\ DkCreateChecked("volume")
        /\ dkCmds[1].res = Ok(TRUE) => dkResult[1] = Ok(<<DockerName>>)
        /\ (Len(dkCmds) = 2 /\ dkCmds[2].res.ok) => dkResult[1] = Ok(<<DockerName>>)

\* networks create created the network and returned the id docker printed; the
\* same call repeated found the network and returned the name, another value.
C30_Witness ==
    /\ dkPrev # None
    /\ dkPrev[1].op = "networks create"
    /\ dkPrev[1].result = Ok(NetworkId)
    /\ DkLast("networks create")
    /\ Len(dkCmds) = 1
    /\ dkResult = Some(Ok(<<DockerName>>))
    /\ <<DockerName>> # NetworkId

\* The answer is a success whose body carries an id.
UpdateAnsweredId ==
    /\ arg.response.answered
    /\ arg.response.status \in 200..299
    /\ "id" \in DOMAIN arg.response.body

\* C26: update returned success exactly when the answer is a success whose
\* body carries the requested machine id; a success carrying another id gave
\* the error naming the expected and the received id; a non-success answer
\* gave the error with its status and body.
C26_UpdateChecksReturnedId ==
    ret # None =>
        /\ ret[1].ok <=> (UpdateAnsweredId /\ arg.response.body.id = arg.machine_id)
        /\ (UpdateAnsweredId /\ arg.response.body.id # arg.machine_id) =>
            ret[1] = Err([kind |-> "unexpected id returned",
                          expected |-> arg.machine_id, got |-> arg.response.body.id])
        /\ (arg.response.answered /\ arg.response.status \notin 200..299) =>
            ret[1] = Err([kind |-> "status", status |-> arg.response.status,
                          body |-> arg.response.body])

\* A success answer carried the id of another machine and update failed.
C26_Witness ==
    /\ ret # None
    /\ UpdateAnsweredId
    /\ arg.response.body.id # arg.machine_id
    /\ ~ret[1].ok

\* The expected addresses the list call did not return.
IpMissing(p) == IpExpected(p) \ ipPost[p][1]
\* post_existing and expected differ in these addresses.
IpDelta(p) == IpLeaked(p) \cup IpMissing(p)

\* C27 (as stated): an invocation whose list call succeeded and that has
\* returned issued a release call for every address of pre_existing + allocated
\* that the list did not return, the address it allocated included, and
\* returned the address it allocated.
C27_MissingAddressesReleased ==
    \A p \in IpProcs :
        (IpListed(p) /\ IpReturned(p)) =>
            /\ \A a \in IpMissing(p) : ipReleases[p][a] = 1
            /\ ipResult[p] = Some(Ok(ipAllocated[p][1]))

\* C27 (amended): an invocation issues at most one release call for every
\* address of pre_existing + allocated that its list call did not return; when
\* it has returned an address it issued exactly one for each of them, the
\* address it allocated included, and the address returned is the allocated
\* one; when it has failed after the list, a release failed.
C27_MissingAddressesReleasedUnlessFailed ==
    \A p \in IpProcs :
        IpListed(p) =>
            /\ \A a \in IpMissing(p) : ipReleases[p][a] <= 1
            /\ ipPc[p] = "done" =>
                /\ \A a \in IpMissing(p) : ipReleases[p][a] = 1
                /\ ipResult[p] = Some(Ok(ipAllocated[p][1]))
            /\ ipPc[p] = "failed" => IpReleaseFailed(p)

\* The list call did not return the address the invocation had just
\* allocated; the invocation released that address and returned it.
C27_Witness ==
    \E p \in IpProcs :
        /\ ipPc[p] = "done"
        /\ ipAllocated[p][1] \in IpMissing(p)
        /\ ipReleases[p][ipAllocated[p][1]] = 1
        /\ ipResult[p] = Some(Ok(ipAllocated[p][1]))

\* C28: an invocation issues at most 2 + |post_existing delta expected|
\* requests (one allocate, one list, the releases), at most one release for an
\* address, and none for an address outside post_existing delta expected.
C28_BoundedRequests ==
    \A p \in IpProcs :
        /\ ipPost[p] = None =>
            /\ Len(ipCalls[p]) <= 2
            /\ \A a \in Addr : ipReleases[p][a] = 0
        /\ ipPost[p] # None =>
            /\ Len(ipCalls[p]) <= 2 + Cardinality(IpDelta(p))
            /\ \A a \in Addr : ipReleases[p][a] <= 1
            /\ \A a \in Addr \ IpDelta(p) : ipReleases[p][a] = 0
            /\ Len(ipCalls[p]) = 2 + Cardinality({a \in Addr : ipReleases[p][a] = 1})

\* pre_existing lists one address twice and the address that was then
\* allocated; the invocation returned after one release of each redundant address.
C28_Witness ==
    \E p \in IpProcs :
        /\ ipPc[p] = "done"
        /\ \E i, j \in DOMAIN pre_existing : i # j /\ pre_existing[i] = pre_existing[j]
        /\ ipAllocated[p][1] \in ToSet(pre_existing)
        /\ IpDelta(p) # {}
        /\ Len(ipCalls[p]) = 2 + Cardinality(IpDelta(p))

\* C29: a delete call of apps, machines, volumes or secrets that the provider
\* answered with 404 returned an error, where release_ip returns success for
\* the same answer; and a delete call made after the same operation succeeded
\* returned an error.
C29_DeletesFailOnNotFound ==
    \A j \in DOMAIN dlCalls :
        /\ (dlCalls[j].response.answered /\ dlCalls[j].response.status = NOT_FOUND) =>
            /\ ~dlCalls[j].result.ok
            /\ dlCalls[j].result.err.status = NOT_FOUND
            /\ release_ip(NOT_FOUND, dlCalls[j].response.body).ok
        /\ \A i \in 1..(j - 1) :
            (dlCalls[i].op = dlCalls[j].op /\ dlCalls[i].result.ok) =>
                ~dlCalls[j].result.ok

\* machines delete deleted the machine; repeated, it was answered 404 and
\* failed.
C29_Witness ==
    \E i, j \in DOMAIN dlCalls :
        /\ i < j
        /\ dlCalls[i].op = dlCalls[j].op
        /\ dlCalls[i].op = "machines delete"
        /\ dlCalls[i].result.ok
        /\ dlCalls[j].response = Response(NOT_FOUND, [error |-> "not found"])
        /\ ~dlCalls[j].result.ok

====
